---------------------------- MODULE Spec2Model ----------------------------
(***************************************************************************)
(* A model of the PDDL-to-diagram pipeline of kkyyds1/pddl-llm:            *)
(*                                                                         *)
(*   - the text front end of parsePddlToMind (stripComments, trim,         *)
(*     tokenize, parseTokensToSExpr, formatSExpr) in                       *)
(*     packages/drawnix/src/utils/pddl-to-drawnix.ts;                      *)
(*   - the graph layout compiler (extractAllPredicates, createActionGraph, *)
(*     createProblemGraph, createDomainGraph) in                           *)
(*     apps/web/src/utils/pddl-to-graph.ts.                                *)
(*                                                                         *)
(* Strings of the program are sequences of one-character strings           *)
(* (<<"(", "a", ")">>), so that tokenizing, trimming, comment stripping    *)
(* and id sanitizing are computed character by character.  Element ids and *)
(* labels, which the program only builds and compares, are TLA+ strings    *)
(* obtained by concatenating the pieces of the template literal.           *)
(***************************************************************************)
EXTENDS Integers, Sequences, FiniteSets, TLC

VARIABLES
    \* ---- parsePddlToMind / parseTokensToSExpr ----
    definition,         \* the argument of parsePddlToMind (a character sequence)
    cleanedDefinition,  \* stripComments(definition).trim()
    tokens,             \* the token array handed to parseTokensToSExpr
    pos,                \* number of forEach iterations of parseTokensToSExpr started
    stack,              \* the builder's stack: references into heap
    heap,               \* the list objects allocated by the builder
    pc,                 \* position in the pipeline
    error,              \* the Error thrown ("" while none)
    formatted,          \* formatSExpr of the built list
    retokens,           \* tokenize(formatted)
    \* ---- graph layout compiler ----
    actionGroupCounter,  \* module-level counter of pddl-to-graph.ts
    problemGroupCounter, \* module-level counter of pddl-to-graph.ts
    calls,               \* the conversions made so far in this process, oldest first
    requests,            \* the structured inputs still to be handed to the converters
    \* ---- parsePddlToMind, after the S-expression is built ----
    definitions,         \* the classified definitions
    root,                \* the mind map returned
    \* ---- the PDDL dialog (PddlToDrawnix) ----
    dialog,              \* the state of the component: text, deferredText, value, error, isParsing
    effectRuns,          \* the runs of the conversion effect, oldest first
    board,               \* the fragments inserted into the board
    \* ---- the upload handler (handlePddlUpload) ----
    fileEntries,         \* the file entries of the workspace
    upload               \* the upload in progress and the alerts shown

parseVars == <<definition, cleanedDefinition, tokens, pos, stack, heap, pc,
               error, formatted, retokens>>
graphVars == <<actionGroupCounter, problemGroupCounter, calls, requests>>
mindVars == <<definitions, root>>
dialogVars == <<dialog, effectRuns, board>>
uploadVars == <<fileEntries, upload>>
vars == <<definition, cleanedDefinition, tokens, pos, stack, heap, pc,
          error, formatted, retokens,
          actionGroupCounter, problemGroupCounter, calls, requests,
          definitions, root, dialog, effectRuns, board, fileEntries, upload>>

-----------------------------------------------------------------------------
(* Bounds of the model.                                                     *)

\* longest input text of parsePddlToMind, in characters
MaxLen == 4
\* longest token array handed directly to parseTokensToSExpr
MaxTokens == 5
\* conversions made in one process lifetime
MaxConversions == 2

-----------------------------------------------------------------------------
(* Generic helpers.                                                         *)

\* all sequences over S of length at most n
BoundedSeq(S, n) == UNION {[1..k -> S] : k \in 0..n}

RECURSIVE Join(_)
\* the TLA+ string spelled by a sequence of string pieces
Join(pieces) == IF pieces = <<>> THEN "" ELSE Head(pieces) \o Join(Tail(pieces))

Max(a, b) == IF a >= b THEN a ELSE b
Min(a, b) == IF a <= b THEN a ELSE b

\* Math.ceil(a / b) for a >= 0, b > 0
CeilDiv(a, b) == (a + b - 1) \div b

-----------------------------------------------------------------------------
(* pddl-to-drawnix.ts: characters and text helpers.                         *)

\* the characters /\s/ matches, among those the model uses
Whitespace == {" ", "\n", "\t", "\r"}

\* the characters that end a ';' comment in /;[^\n\r]*/g
LineEnd == {"\n", "\r"}

RECURSIVE stripFrom(_, _, _)
\* definition.replace(/;[^\n\r]*/g, ''): inComment is TRUE from a ';' up to,
\* and not including, the next line end
stripFrom(text, i, inComment) ==
    IF i > Len(text) THEN <<>>
    ELSE LET c == text[i] IN
         IF inComment
         THEN IF c \in LineEnd
              THEN <<c>> \o stripFrom(text, i + 1, FALSE)
              ELSE stripFrom(text, i + 1, TRUE)
         ELSE IF c = ";"
              THEN stripFrom(text, i + 1, TRUE)
              ELSE <<c>> \o stripFrom(text, i + 1, FALSE)

stripCommentsKeep(text) == text

stripComments(text) == stripFrom(text, 1, FALSE)

RECURSIVE trimStart(_)
trimStart(s) ==
    IF s = <<>> THEN <<>>
    ELSE IF Head(s) \in Whitespace THEN trimStart(Tail(s)) ELSE s

RECURSIVE trimEnd(_)
trimEnd(s) ==
    IF s = <<>> THEN <<>>
    ELSE IF s[Len(s)] \in Whitespace THEN trimEnd(SubSeq(s, 1, Len(s) - 1)) ELSE s

\* String.prototype.trim
trim(s) == trimEnd(trimStart(s))

\* a mutant of pushCurrent: the current run is pushed even when it is empty
pushCurrentAlways(toks, current) == Append(toks, trim(current))

\* pushCurrent of tokenize: push current.trim() when it is not empty
pushCurrent(toks, current) ==
    IF trim(current) # <<>> THEN Append(toks, trim(current)) ELSE toks

RECURSIVE tokenizeFrom(_, _, _, _)
\* the for loop of tokenize from index i, then the final pushCurrent
tokenizeFrom(text, i, toks, current) ==
    IF i > Len(text) THEN pushCurrent(toks, current)
    ELSE LET char == text[i] IN
         IF char = "(" \/ char = ")"
         THEN tokenizeFrom(text, i + 1, Append(pushCurrent(toks, current), <<char>>), <<>>)
         ELSE IF char \in Whitespace
              THEN tokenizeFrom(text, i + 1, pushCurrent(toks, current), <<>>)
              ELSE tokenizeFrom(text, i + 1, toks, current \o <<char>>)

\* a mutant of tokenize: the pushCurrent after the loop is left out, so the
\* run that ends the text is lost
tokenizeUnflushed(text) ==
    IF text # <<>> /\ text[Len(text)] \notin Whitespace \cup {"(", ")"}
    THEN SubSeq(tokenizeFrom(text, 1, <<>>, <<>>), 1,
                Len(tokenizeFrom(text, 1, <<>>, <<>>)) - 1)
    ELSE tokenizeFrom(text, 1, <<>>, <<>>)

\* tokenize(definition)
tokenize(text) == tokenizeFrom(text, 1, <<>>, <<>>)

-----------------------------------------------------------------------------
(* pddl-to-drawnix.ts: the S-expression builder.                            *)
(*                                                                          *)
(* An SExpr is a JavaScript array, shared by reference between its parent   *)
(* list and the stack.  heap[r] is the content of the array with reference  *)
(* r; an item of a list is an atom or a reference.                          *)

AtomItem(tok) == [isAtom |-> TRUE, atom |-> tok, ref |-> 0]
ListItem(r) == [isAtom |-> FALSE, atom |-> <<>>, ref |-> r]

OpenParen == <<"(">>
CloseParen == <<")">>

\* const stack: SExpr[] = [[]]
InitialHeap == << <<>> >>
InitialStack == <<1>>

\* a mutant of parseTokenStep: an excess ')' is skipped instead of thrown
parseTokenStepNoThrow(stk, hp, token) ==
    IF token = OpenParen
    THEN LET r == Len(hp) + 1
             top == stk[Len(stk)] IN
         [stack |-> Append(stk, r),
          heap |-> Append([hp EXCEPT ![top] = Append(@, ListItem(r))], <<>>),
          error |-> ""]
    ELSE IF token = CloseParen
         THEN IF Len(stk) = 1
              THEN [stack |-> stk, heap |-> hp, error |-> ""]
              ELSE [stack |-> SubSeq(stk, 1, Len(stk) - 1), heap |-> hp, error |-> ""]
         ELSE LET top == stk[Len(stk)] IN
              [stack |-> stk,
               heap |-> [hp EXCEPT ![top] = Append(@, AtomItem(token))],
               error |-> ""]

\* one iteration of tokens.forEach in parseTokensToSExpr
parseTokenStep(stk, hp, token) ==
    IF token = OpenParen
    THEN LET r == Len(hp) + 1
             top == stk[Len(stk)] IN
         [stack |-> Append(stk, r),
          heap |-> Append([hp EXCEPT ![top] = Append(@, ListItem(r))], <<>>),
          error |-> ""]
    ELSE IF token = CloseParen
         THEN IF Len(stk) = 1
              THEN [stack |-> stk, heap |-> hp, error |-> "unexpectedClose"]
              ELSE [stack |-> SubSeq(stk, 1, Len(stk) - 1), heap |-> hp, error |-> ""]
         ELSE LET top == stk[Len(stk)] IN
              [stack |-> stk,
               heap |-> [hp EXCEPT ![top] = Append(@, AtomItem(token))],
               error |-> ""]

\* a mutant of parseEndCheck: leftover open lists are accepted
parseEndCheckNone(stk) == ""

\* the check after the loop: if (stack.length !== 1) throw
parseEndCheck(stk) == IF Len(stk) # 1 THEN "unbalanced" ELSE ""

RECURSIVE formatSExprSep(_, _, _)
RECURSIVE formatItemsSep(_, _, _)
\* formatSExpr with the separator of join as a parameter
formatSExprSep(hp, item, sep) ==
    IF item.isAtom THEN item.atom
    ELSE <<"(">> \o formatItemsSep(hp, hp[item.ref], sep) \o <<")">>
\* items.map((item) => formatSExpr(item)).join(sep)
formatItemsSep(hp, items, sep) ==
    IF items = <<>> THEN <<>>
    ELSE IF Len(items) = 1 THEN formatSExprSep(hp, items[1], sep)
    ELSE formatSExprSep(hp, items[1], sep) \o sep \o formatItemsSep(hp, Tail(items), sep)

\* a mutant of formatSExpr: the items are joined without a space
formatSExprNoSpace(hp, item) == formatSExprSep(hp, item, <<>>)

formatSExpr(hp, item) == formatSExprSep(hp, item, <<" ">>)

\* formatInline: the items of a list, each formatted, joined by a space
formatInline(hp, items) ==
    IF items = <<>> THEN <<>>
    ELSE IF Len(items) = 1 THEN formatSExpr(hp, items[1])
    ELSE LET RECURSIVE go(_)
             go(k) == IF k = Len(items) THEN formatSExpr(hp, items[k])
                      ELSE formatSExpr(hp, items[k]) \o <<" ">> \o go(k + 1)
         IN go(1)

-----------------------------------------------------------------------------
(* Inputs of the text front end.                                            *)

\* the characters of the input texts
CharAlphabet == {"(", ")", " ", "\n", ";", "a"}

TextInputs == BoundedSeq(CharAlphabet, MaxLen)

\* the tokens tokenize can produce, as handed to parseTokensToSExpr
TokenAlphabet == {OpenParen, CloseParen, <<"a">>, <<"b", "c">>}

\* the specification's example: tokenize("(a (b c))")
ExampleText == <<"(", "a", " ", "(", "b", " ", "c", ")", ")">>
ExampleTokens == <<OpenParen, <<"a">>, OpenParen, <<"b">>, <<"c">>, CloseParen, CloseParen>>

TokenInputs == BoundedSeq(TokenAlphabet, MaxTokens) \cup {ExampleTokens}

GraphIdle ==
    /\ actionGroupCounter = 0
    /\ problemGroupCounter = 0
    /\ calls = <<>>
    /\ requests = <<>>

\* a MindElement: its text and its children
MindElement(text, children) == [text |-> text, children |-> children]

\* no mind map has been returned
NoMind == MindElement("", <<>>)

MindIdle ==
    /\ definitions = <<>>
    /\ root = NoMind

\* the state of the PDDL dialog: value holds the previewed mind map or
\* nothing, error is "" for null
ClosedDialog ==
    [open |-> FALSE, variant |-> "async", text |-> <<>>, deferredText |-> <<>>,
     value |-> <<>>, error |-> "", isParsing |-> FALSE]

\* the state of handlePddlUpload: the request and the response in flight
IdleUpload ==
    [uploading |-> FALSE, pending |-> <<>>, response |-> <<>>, alerts |-> <<>>]

\* the dialog is not mounted, no file is uploaded
UiIdle ==
    /\ dialog = ClosedDialog
    /\ effectRuns = <<>>
    /\ board = <<>>
    /\ fileEntries = <<>>
    /\ upload = IdleUpload

ParseIdle ==
    /\ definition = <<>>
    /\ cleanedDefinition = <<>>
    /\ tokens = <<>>
    /\ pos = 0
    /\ stack = InitialStack
    /\ heap = InitialHeap
    /\ pc = "idle"
    /\ error = ""
    /\ formatted = <<>>
    /\ retokens = <<>>

-----------------------------------------------------------------------------
(* parsePddlToMind, lines 329-340, and parseTokensToSExpr, step by step.    *)

\* lines 330-333: strip the comments, trim, throw on an empty rest
StripAndCheck ==
    /\ pc = "start"
    /\ cleanedDefinition' = trim(stripComments(definition))
    /\ IF cleanedDefinition' = <<>>
       THEN /\ error' = "empty"
            /\ pc' = "failed"
       ELSE /\ error' = ""
            /\ pc' = "tokenize"
    /\ UNCHANGED <<definition, tokens, pos, stack, heap, formatted, retokens>>
    /\ UNCHANGED graphVars
    /\ UNCHANGED <<mindVars, dialogVars, uploadVars>>

\* lines 335-338: tokenize, throw when no token came out
Tokenize ==
    /\ pc = "tokenize"
    /\ tokens' = tokenize(cleanedDefinition)
    /\ IF Len(tokens') = 0
       THEN /\ error' = "tokenizeEmpty"
            /\ pc' = "failed"
       ELSE /\ error' = ""
            /\ pc' = "parse"
    /\ UNCHANGED <<definition, cleanedDefinition, pos, stack, heap, formatted, retokens>>
    /\ UNCHANGED graphVars
    /\ UNCHANGED <<mindVars, dialogVars, uploadVars>>

\* a mutant of the iteration: the list a '(' opens is pushed to its parent
\* but not to the stack
ParseTokenFlat ==
    /\ pc = "parse"
    /\ pos < Len(tokens)
    /\ LET r == parseTokenStep(stack, heap, tokens[pos + 1]) IN
        /\ pos' = pos + 1
        /\ stack' = IF tokens[pos + 1] = OpenParen THEN stack ELSE r.stack
        /\ heap' = r.heap
        /\ error' = r.error
        /\ pc' = IF r.error # "" THEN "failed" ELSE "parse"
    /\ UNCHANGED <<definition, cleanedDefinition, tokens, formatted, retokens>>
    /\ UNCHANGED graphVars
    /\ UNCHANGED <<mindVars, dialogVars, uploadVars>>

\* lines 77-90: one iteration of tokens.forEach; a throw ends the call
ParseToken ==
    /\ pc = "parse"
    /\ pos < Len(tokens)
    /\ LET r == parseTokenStep(stack, heap, tokens[pos + 1]) IN
        /\ pos' = pos + 1
        /\ stack' = r.stack
        /\ heap' = r.heap
        /\ error' = r.error
        /\ pc' = IF r.error # "" THEN "failed" ELSE "parse"
    /\ UNCHANGED <<definition, cleanedDefinition, tokens, formatted, retokens>>
    /\ UNCHANGED graphVars
    /\ UNCHANGED <<mindVars, dialogVars, uploadVars>>

\* lines 92-96: the check after the loop, and the return of stack[0]
ParseEnd ==
    /\ pc = "parse"
    /\ pos = Len(tokens)
    /\ error' = parseEndCheck(stack)
    /\ pc' = IF error' # "" THEN "failed" ELSE "built"
    /\ UNCHANGED <<definition, cleanedDefinition, tokens, pos, stack, heap,
                   formatted, retokens>>
    /\ UNCHANGED graphVars
    /\ UNCHANGED <<mindVars, dialogVars, uploadVars>>

\* the value parseTokensToSExpr returns: stack[0]
ParseResult == heap[stack[1]]

\* serialise the returned top-level items with formatSExpr
FormatResult ==
    /\ pc = "built"
    /\ formatted' = formatInline(heap, ParseResult)
    /\ pc' = "formatted"
    /\ UNCHANGED <<definition, cleanedDefinition, tokens, pos, stack, heap,
                   error, retokens>>
    /\ UNCHANGED graphVars
    /\ UNCHANGED <<mindVars, dialogVars, uploadVars>>

\* tokenize the serialised text again
Retokenize ==
    /\ pc = "formatted"
    /\ retokens' = tokenize(formatted)
    /\ pc' = "retokenized"
    /\ UNCHANGED <<definition, cleanedDefinition, tokens, pos, stack, heap,
                   error, formatted>>
    /\ UNCHANGED graphVars
    /\ UNCHANGED <<mindVars, dialogVars, uploadVars>>

\* parsePddlToMind called on a text
InitParse ==
    /\ definition \in TextInputs
    /\ cleanedDefinition = <<>>
    /\ tokens = <<>>
    /\ pos = 0
    /\ stack = InitialStack
    /\ heap = InitialHeap
    /\ pc = "start"
    /\ error = ""
    /\ formatted = <<>>
    /\ retokens = <<>>
    /\ GraphIdle
    /\ MindIdle
    /\ UiIdle

NextParse == StripAndCheck \/ Tokenize \/ ParseToken \/ ParseEnd

SpecParse == InitParse /\ [][NextParse]_vars

\* parseTokensToSExpr called on a token array, its result serialised and
\* tokenized again
InitBuild ==
    /\ definition = <<>>
    /\ cleanedDefinition = <<>>
    /\ tokens \in TokenInputs
    /\ pos = 0
    /\ stack = InitialStack
    /\ heap = InitialHeap
    /\ pc = "parse"
    /\ error = ""
    /\ formatted = <<>>
    /\ retokens = <<>>
    /\ GraphIdle
    /\ MindIdle
    /\ UiIdle

NextBuild == ParseToken \/ ParseEnd \/ FormatResult \/ Retokenize

SpecBuild == InitBuild /\ [][NextBuild]_vars

-----------------------------------------------------------------------------
(* Properties of the S-expression builder.                                  *)

\* the number of tokens equal to tok among the first k of toks
CountTok(toks, tok, k) == Cardinality({i \in 1..k : toks[i] = tok})

\* the first k tokens hold more ')' than '('
Excess(toks, k) == CountTok(toks, CloseParen, k) > CountTok(toks, OpenParen, k)

\* the index of the first ')' that exceeds the '(' seen so far, 0 when none
FirstExcess(toks) ==
    IF \E k \in 1..Len(toks) : Excess(toks, k)
    THEN CHOOSE k \in 1..Len(toks) :
            /\ Excess(toks, k)
            /\ \A j \in 1..(k - 1) : ~Excess(toks, j)
    ELSE 0

Balanced(toks) ==
    /\ FirstExcess(toks) = 0
    /\ CountTok(toks, OpenParen, Len(toks)) = CountTok(toks, CloseParen, Len(toks))

\* the tokens form one parenthesised list: the first '(' is closed by the
\* last token
OneList(toks) ==
    /\ Len(toks) >= 2
    /\ toks[1] = OpenParen
    /\ Balanced(toks)
    /\ \A k \in 1..(Len(toks) - 1) :
          CountTok(toks, OpenParen, k) > CountTok(toks, CloseParen, k)

\* C1: round trip.  For every balanced token sequence that forms one
\* parenthesised list, building the S-expression, serialising it with
\* formatSExpr and tokenizing the text again gives the original tokens; the
\* tree built from the tokens of "(a (b c))" serialises to "(a (b c))".
C1_RoundTrip ==
    /\ (pc = "retokenized" /\ OneList(tokens)) => retokens = tokens
    /\ (pc \in {"formatted", "retokenized"} /\ tokens = ExampleTokens)
          => formatted = ExampleText

\* C1 witness: the example has been built, serialised and tokenized again
C1_Witness ==
    /\ pc = "retokenized"
    /\ tokens = ExampleTokens
    /\ formatted = ExampleText
    /\ retokens = ExampleTokens

\* C2: when some prefix of the tokens holds more ')' than '(', the builder
\* throws the unexpected-closing-parenthesis error exactly on reaching the
\* first excess ')', and processes no token after it.
C2_FirstExcessClose ==
    LET k == FirstExcess(tokens) IN
    /\ error = "unexpectedClose" => (k # 0 /\ pos = k)
    /\ k # 0 => /\ pos <= k
                /\ pos = k => (error = "unexpectedClose" /\ pc = "failed")
                /\ pos < k => (error = "" /\ pc = "parse")

\* C2 witness: the throw happened on an excess ')' that tokens follow
C2_Witness ==
    /\ error = "unexpectedClose"
    /\ pos = FirstExcess(tokens)
    /\ 1 < pos
    /\ pos < Len(tokens)

\* the call of parseTokensToSExpr has ended
ParseEnded == pc \notin {"idle", "start", "tokenize", "parse"}

\* C3: parseTokensToSExpr returns a tree if and only if every prefix of the
\* tokens has at least as many '(' as ')' and the totals are equal; with no
\* excess ')' in any prefix but more '(' than ')' overall it throws the
\* unbalanced-parentheses error.
C3_ReturnsIffBalanced ==
    ParseEnded =>
        /\ (error = "") <=> Balanced(tokens)
        /\ (/\ FirstExcess(tokens) = 0
            /\ CountTok(tokens, OpenParen, Len(tokens))
                 > CountTok(tokens, CloseParen, Len(tokens)))
              => error = "unbalanced"

\* C3 witness: no prefix had an excess ')' and two lists were left open
C3_Witness ==
    /\ pc = "failed"
    /\ error = "unbalanced"
    /\ Len(stack) = 3
    /\ FirstExcess(tokens) = 0

-----------------------------------------------------------------------------
(* Properties of the text front end.                                        *)

\* character i of text lies in a ';' line comment
InLineComment(text, i) ==
    \E j \in 1..i : /\ text[j] = ";"
                    /\ \A k \in j..i : text[k] \notin LineEnd

\* text is empty, or holds only whitespace and ';' line comments
BlankOrComments(text) ==
    \A i \in 1..Len(text) : text[i] \in Whitespace \/ InLineComment(text, i)

\* C4: for every input that is empty, whitespace-only, or made only of ';'
\* line comments and whitespace, parsePddlToMind fails with the "PDDL
\* content is empty" error, and it never reaches the tokenizing stage.
C4_EmptyInput ==
    BlankOrComments(definition) =>
        /\ pc \in {"start", "failed"}
        /\ pc = "failed" => error = "empty"
        /\ tokens = <<>>
        /\ pos = 0

\* C4 witness: a text holding only a comment failed as empty
C4_Witness ==
    /\ definition = <<";", "a">>
    /\ pc = "failed"
    /\ error = "empty"

-----------------------------------------------------------------------------
(* pddl-to-graph.ts (the version starting at line 1028): constants.         *)

NODE_WIDTH == 120
NODE_HEIGHT == 60
PARAMETER_NODE_WIDTH == (NODE_WIDTH * 7) \div 10
PARAMETER_NODE_HEIGHT == (NODE_HEIGHT * 7) \div 10
NODE_SPACING_X == 200
NODE_SPACING_Y == 110
START_X == 100
START_Y == 100
PRECONDITION_COLOR == "#f28b82"
EFFECT_COLOR == "#81c995"
SECTION_GAP == NODE_SPACING_Y \div 2
ACTION_COLUMNS == 3
ACTION_GROUP_WIDTH == NODE_WIDTH + NODE_SPACING_X * (ACTION_COLUMNS - 1)
PROBLEM_MAX_COLUMNS == 8
FUNCTION_NODE_COLOR == "#b39ddb"
OPERATOR_NODE_COLOR == "#4a90e2"
LITERAL_NODE_COLOR == "#ffcc80"

-----------------------------------------------------------------------------
(* Texts.  A text of the graph compiler is a sequence of pieces; a piece is *)
(* one character, or a run of characters of [a-zA-Z0-9_-] that no input     *)
(* splits in another way (a keyword, a number).  Join gives the string.     *)

\* a keyword or a literal of a template, as a text
T(s) == <<s>>

\* the text of a number: `${n}`
NumText(n) == <<ToString(n)>>

\* the one-character pieces outside [a-zA-Z0-9_-] that the model uses
UnsafeChars == {"?", " ", "=", "<", ">", "+", "*", "/", "(", ")", ",", "|", ":", "."}

\* id.replace(/[^a-zA-Z0-9_-]/g, '_')
sanitizeId(text) ==
    Join([i \in 1..Len(text) |-> IF text[i] \in UnsafeChars THEN "_" ELSE text[i]])

\* the pieces of sanitizeId(text), for a sanitized id used inside another id
sanitizedText(text) ==
    [i \in 1..Len(text) |-> IF text[i] \in UnsafeChars THEN "_" ELSE text[i]]

\* items.join(sep) over texts
RECURSIVE JoinTexts(_, _)
JoinTexts(texts, sep) ==
    IF texts = <<>> THEN <<>>
    ELSE IF Len(texts) = 1 THEN texts[1]
    ELSE texts[1] \o sep \o JoinTexts(Tail(texts), sep)

-----------------------------------------------------------------------------
(* pddl-types: expressions and arguments.  A JavaScript object is a record  *)
(* with every field of the union; has is the set of the keys the object     *)
(* owns.  An absent or empty string is <<>>, an absent object field is the  *)
(* empty sequence, a present one a sequence of length one.                  *)

EmptyNode ==
    [type |-> <<>>, name |-> <<>>, value |-> 0, arguments |-> <<>>,
     argument |-> <<>>, children |-> <<>>, items |-> <<>>, has |-> {}]

\* PddlPredicateExpression
Predicate(name, args) ==
    [EmptyNode EXCEPT !.type = T("predicate"), !.name = name, !.arguments = args,
                      !.has = {"type", "name", "arguments"}]

\* PddlFunctionExpression
Function(name, args) ==
    [EmptyNode EXCEPT !.type = T("function"), !.name = name, !.arguments = args,
                      !.has = {"type", "name", "arguments"}]

\* PddlNotExpression
Not(e) ==
    [EmptyNode EXCEPT !.type = T("not"), !.argument = <<e>>, !.has = {"type", "argument"}]

\* PddlNumericExpression and operators: a type with arguments
WithArguments(type, args) ==
    [EmptyNode EXCEPT !.type = type, !.arguments = args, !.has = {"type", "arguments"}]

\* PddlCompositeExpression with children
WithChildren(type, children) ==
    [EmptyNode EXCEPT !.type = type, !.children = children, !.has = {"type", "children"}]

\* a container that exposes items
WithItems(type, items) ==
    [EmptyNode EXCEPT !.type = type, !.items = items, !.has = {"type", "items"}]

\* PddlCompositeExpression with a single argument
WithArgument(type, e) ==
    [EmptyNode EXCEPT !.type = type, !.argument = <<e>>, !.has = {"type", "argument"}]

\* PddlNumberLiteral
Number(v) ==
    [EmptyNode EXCEPT !.type = T("number"), !.value = v, !.has = {"type", "value"}]

\* PddlTypedParameter / PddlObject: type is <<>> for null
TypedParameter(name, type) ==
    [EmptyNode EXCEPT !.type = type, !.name = name, !.has = {"name", "type"}]

NUMERIC_EFFECT_TYPES == {T("increase"), T("decrease")}

COMPARATOR_TYPES ==
    {<<"=">>, <<"<", "=">>, <<">", "=">>, <<"<">>, <<">">>, T("equal"),
     T("lesser-equal"), T("greater-equal"), T("lesser"), T("greater")}

\* COMPARATOR_LABEL_MAP[type] ?? type, for the keys the model uses
getComparatorLabel(type) ==
    IF type = <<>> THEN <<"=">>
    ELSE LET normalized == trim(type) IN
         CASE normalized \in {<<"=">>, T("equal")} -> <<"=">>
           [] normalized \in {<<"<", "=">>, T("lesser-equal")} -> <<"<", "=">>
           [] normalized \in {<<">", "=">>, T("greater-equal")} -> <<">", "=">>
           [] normalized \in {<<"<">>, T("lesser")} -> <<"<">>
           [] normalized \in {<<">">>, T("greater")} -> <<">">>
           [] OTHER -> normalized

\* NUMERIC_OPERATOR_LABEL_MAP; the non-ASCII labels are named by code point
NumericOperatorLabel(normalized) ==
    CASE normalized \in {T("times"), <<"*">>, T("multiply")} -> T("U+00D7")
      [] normalized \in {T("plus"), <<"+">>} -> <<"+">>
      [] normalized \in {T("minus"), <<"-">>, T("subtract")} -> <<"-">>
      [] normalized \in {T("divide"), <<"/">>} -> T("U+00F7")
      [] normalized = T("scale-up") -> T("U+2191")
      [] normalized = T("scale-down") -> T("U+2193")
      [] normalized = T("assign") -> <<"=">>
      [] OTHER -> <<>>

\* getOperatorLabel(type, fallback); <<>> stands for an absent fallback, and
\* the callers treat an empty result like an absent one
getOperatorLabel(type, fallback) ==
    IF type = <<>> THEN (IF fallback # <<>> THEN fallback ELSE <<"?">>)
    ELSE LET normalized == trim(type)
             mapped == NumericOperatorLabel(normalized) IN
         IF mapped # <<>> THEN mapped
         ELSE IF fallback # <<>> THEN fallback ELSE normalized

isNumberLiteralArgument(argument) ==
    "type" \in argument.has /\ argument.type = T("number")

isFunctionExpressionArgument(argument) ==
    "type" \in argument.has /\ argument.type = T("function")

isTypedParameterArgument(argument) ==
    /\ "name" \in argument.has
    /\ argument.has \cap {"arguments", "children", "argument", "items"} = {}

isPddlExpressionValue(argument) ==
    \/ /\ "type" \in argument.has
       /\ \/ argument.type \in {T("predicate"), T("function"), T("not"), T("assign"),
                                T("scale-up"), T("scale-down"), T("number")}
          \/ argument.type \in NUMERIC_EFFECT_TYPES
    \/ "arguments" \in argument.has
    \/ "children" \in argument.has
    \/ ("argument" \in argument.has /\ argument.argument # <<>>)
    \/ "items" \in argument.has

RECURSIVE stringifyExpressionArgument(_)
RECURSIVE formatFunctionLabel(_, _)
\* stringifyExpressionArgument for an object argument
stringifyExpressionArgument(argument) ==
    IF isNumberLiteralArgument(argument) THEN NumText(argument.value)
    ELSE IF isFunctionExpressionArgument(argument) THEN formatFunctionLabel(argument, TRUE)
    ELSE IF "name" \in argument.has THEN argument.name
    ELSE IF "type" \in argument.has THEN argument.type
    ELSE <<"?">>
\* formatFunctionLabel(funcExpr, { includeArguments })
formatFunctionLabel(funcExpr, includeArguments) ==
    IF ~includeArguments THEN funcExpr.name
    ELSE LET rawArgs == funcExpr.arguments
             all == [i \in 1..Len(rawArgs) |-> stringifyExpressionArgument(rawArgs[i])]
             Shown(text) == text # <<>> /\ text # <<"?">>
             argTexts == SelectSeq(all, Shown) IN
         IF Len(argTexts) > 0
         THEN funcExpr.name \o <<"(">> \o JoinTexts(argTexts, <<",", " ">>) \o <<")">>
         ELSE funcExpr.name

isNumericEffectExpression(expr) == expr.type \in NUMERIC_EFFECT_TYPES

RECURSIVE visitNumeric(_)
RECURSIVE visitNumericAll(_)
\* visit of extractNumericEffects
visitNumeric(expr) ==
    (IF isNumericEffectExpression(expr) THEN <<expr>> ELSE <<>>)
    \o (IF "children" \in expr.has THEN visitNumericAll(expr.children) ELSE <<>>)
    \o (IF "items" \in expr.has THEN visitNumericAll(expr.items) ELSE <<>>)
    \o (IF "argument" \in expr.has /\ expr.argument # <<>>
           /\ isPddlExpressionValue(expr.argument[1])
        THEN visitNumeric(expr.argument[1]) ELSE <<>>)
    \o (IF "arguments" \in expr.has
        THEN visitNumericAll(SelectSeq(expr.arguments, isPddlExpressionValue))
        ELSE <<>>)
visitNumericAll(exprs) ==
    IF exprs = <<>> THEN <<>>
    ELSE visitNumeric(Head(exprs)) \o visitNumericAll(Tail(exprs))

extractNumericEffects(expressions) == visitNumericAll(expressions)

\* the names of the arguments of a predicate or function that have a name
extractExpressionArguments(expr) ==
    IF expr.type = T("predicate") \/ expr.type = T("function")
    THEN LET Named(arg) == "name" \in arg.has
             named == SelectSeq(expr.arguments, Named) IN
         [i \in 1..Len(named) |-> named[i].name]
    ELSE <<>>

\* ExtractedPredicate
Extracted(expr, isNegated) == [expr |-> expr, isNegated |-> isNegated]

getPredicateLabel(extracted) ==
    IF extracted.isNegated THEN <<"not", " ">> \o extracted.expr.name
    ELSE extracted.expr.name

RECURSIVE uniqueFrom(_, _, _)
\* the forEach of getUniquePredicates from index i, with the labels seen
uniqueFrom(predicates, i, seen) ==
    IF i > Len(predicates) THEN <<>>
    ELSE LET label == Join(getPredicateLabel(predicates[i])) IN
         IF label \notin seen
         THEN <<predicates[i]>> \o uniqueFrom(predicates, i + 1, seen \cup {label})
         ELSE uniqueFrom(predicates, i + 1, seen)

getUniquePredicates(predicates) == uniqueFrom(predicates, 1, {})

RECURSIVE extract(_, _)
RECURSIVE extractEach(_, _)
\* extract of extractAllPredicates
extract(expr, isNegated) ==
    IF expr.type = T("predicate") THEN <<Extracted(expr, isNegated)>>
    ELSE IF expr.type = T("not") /\ "argument" \in expr.has /\ expr.argument # <<>>
    THEN extract(expr.argument[1], ~isNegated)
    ELSE IF "children" \in expr.has THEN extractEach(expr.children, isNegated)
    ELSE IF "items" \in expr.has THEN extractEach(expr.items, isNegated)
    ELSE IF "argument" \in expr.has /\ expr.argument # <<>>
    THEN extract(expr.argument[1], isNegated)
    ELSE <<>>
extractEach(exprs, isNegated) ==
    IF exprs = <<>> THEN <<>>
    ELSE extract(Head(exprs), isNegated) \o extractEach(Tail(exprs), isNegated)

RECURSIVE extractLeaky(_, _)
\* a mutant of extractAllPredicates: the negation flag is one variable that a
\* `not` flips and nothing flips back, so it leaks into what follows;
\* the result is <<collected, flag>>
extractLeaky(exprs, state) ==
    IF exprs = <<>> THEN state
    ELSE LET expr == Head(exprs)
             after ==
                 IF expr.type = T("predicate")
                 THEN <<Append(state[1], Extracted(expr, state[2])), state[2]>>
                 ELSE IF expr.type = T("not") /\ expr.argument # <<>>
                 THEN extractLeaky(expr.argument, <<state[1], ~state[2]>>)
                 ELSE IF "children" \in expr.has THEN extractLeaky(expr.children, state)
                 ELSE IF "items" \in expr.has THEN extractLeaky(expr.items, state)
                 ELSE IF expr.argument # <<>> THEN extractLeaky(expr.argument, state)
                 ELSE state
         IN extractLeaky(Tail(exprs), after)

extractAllPredicatesLeaky(expressions) == extractLeaky(expressions, <<(<<>>), FALSE>>)[1]

extractAllPredicates(expressions) == extractEach(expressions, FALSE)

isComparatorExpression(expr) == expr.type \in COMPARATOR_TYPES

RECURSIVE visitComparator(_)
RECURSIVE visitComparatorAll(_)
\* visit of extractComparatorExpressions
visitComparator(expr) ==
    (IF isComparatorExpression(expr) THEN <<expr>> ELSE <<>>)
    \o (IF "children" \in expr.has THEN visitComparatorAll(expr.children) ELSE <<>>)
    \o (IF "items" \in expr.has THEN visitComparatorAll(expr.items) ELSE <<>>)
    \o (IF "argument" \in expr.has /\ expr.argument # <<>>
        THEN visitComparator(expr.argument[1]) ELSE <<>>)
visitComparatorAll(exprs) ==
    IF exprs = <<>> THEN <<>>
    ELSE visitComparator(Head(exprs)) \o visitComparatorAll(Tail(exprs))

extractComparatorExpressions(expressions) == visitComparatorAll(expressions)

-----------------------------------------------------------------------------
(* pddl-to-graph.ts: diagram elements.                                      *)

\* Map.set / Map.get / Map.has on a Map keyed by strings
EmptyMap == <<>>
MapSet(map, key, v) == [k \in (DOMAIN map) \cup {key} |-> IF k = key THEN v ELSE map[k]]
MapHas(map, key) == key \in DOMAIN map

\* a PlaitElement: points [[x, y], [x + width, y + height]] are kept as
\* x, y, width, height; the fields a kind of element lacks keep these values
BaseElement ==
    [id |-> "", type |-> "", shape |-> "", x |-> 0, y |-> 0, width |-> 0, height |-> 0,
     text |-> "", fill |-> "", strokeColor |-> "", role |-> "", groupId |-> "",
     sourceId |-> "", targetId |-> "", ends |-> <<>>,
     elementIds |-> <<>>, dataType |-> "", description |-> "", descriptionIds |-> <<>>]

\* GraphNodeInfo; center is origin + size / 2
createGraphNodeInfo(id, x, y, width, height, shape) ==
    [id |-> id, x |-> x, y |-> y, width |-> width, height |-> height, shape |-> shape]

createGeometryNode(text, x, y, id, width, height) ==
    [BaseElement EXCEPT !.id = id, !.type = "geometry", !.shape = "rectangle",
                        !.x = x, !.y = y, !.width = width, !.height = height,
                        !.text = Join(text), !.fill = "#e8f4fd", !.strokeColor = "#1e88e5"]

\* the geometry of a node that the points and connections of a line are
\* computed from (getNodeBorderPointTowards, getConnectionPointOfNode)
NodeGeometry(node) == <<node.x, node.y, node.width, node.height, node.shape>>

\* a mutant of createArrowLine: the source is bound to the line itself
createArrowLineSelfBound(sourceNode, targetNode, id) ==
    [BaseElement EXCEPT !.id = id, !.type = "arrow-line", !.shape = "straight",
                        !.sourceId = id, !.targetId = targetNode.id,
                        !.ends = <<NodeGeometry(sourceNode), NodeGeometry(targetNode)>>,
                        !.strokeColor = "#666666"]

\* createArrowLine(sourceNode, targetNode, undefined, id): the border points and
\* the connections are functions of the two nodes' geometry, kept as ends
createArrowLine(sourceNode, targetNode, id) ==
    [BaseElement EXCEPT !.id = id, !.type = "arrow-line", !.shape = "straight",
                        !.sourceId = sourceNode.id, !.targetId = targetNode.id,
                        !.ends = <<NodeGeometry(sourceNode), NodeGeometry(targetNode)>>,
                        !.strokeColor = "#666666"]

createPredicateNode(text, x, y, id, fillColor) ==
    [BaseElement EXCEPT !.id = id, !.type = "geometry", !.shape = "ellipse",
                        !.x = x, !.y = y, !.width = NODE_WIDTH, !.height = NODE_HEIGHT,
                        !.text = Join(text), !.fill = fillColor, !.strokeColor = "#444444"]

createDescriptionNode(text, x, y, id, width, height, role) ==
    [createGeometryNode(text, x, y, id, width, height) EXCEPT
        !.fill = IF role = "action" THEN "#fff7e6"
                 ELSE IF role = "problem-init" THEN "#fdecea" ELSE "#ecf8f1",
        !.strokeColor = IF role = "action" THEN "#d48806"
                        ELSE IF role = "problem-init" THEN "#d93025" ELSE "#0f9d58",
        !.role = role \o "-description"]

-----------------------------------------------------------------------------
(* pddl-to-graph.ts: createActionGraph.  The locals that the closures of    *)
(* the function update are the fields of one record g, handed from step to  *)
(* step in the order of the code.                                           *)

NewBuilder(groupId, startY) ==
    [groupId |-> groupId, elements |-> <<>>, groupedElementIds |-> <<>>,
     parameterNodes |-> EmptyMap, predicateNodes |-> <<>>,
     functionNodes |-> <<>>, functionNodeMap |-> EmptyMap,
     maxElementBottom |-> startY, nextSectionY |-> startY,
     lastSectionStartY |-> startY, lastSectionRows |-> 0,
     numericSectionStartY |-> 0, numericNodeCount |-> 0, numericEdgeCounter |-> 0,
     operatorNodeCounter |-> 0, literalNodeCounter |-> 0, functionNodeCounter |-> 0,
     edgeIndex |-> 0]

\* a mutant of registerElement: the element is not recorded in the group
registerElementUngrouped(g, element) ==
    [g EXCEPT !.elements = Append(@, element)]

\* registerElement: set groupId, record the id, push the element
registerElement(g, element) ==
    [g EXCEPT !.elements = Append(@, [element EXCEPT !.groupId = g.groupId]),
              !.groupedElementIds = Append(@, element.id)]

\* TLC evaluates the argument of an operator when it is first used; Built(g)
\* evaluates the builder g, so that a loop hands on a value, not a computation
Built(g) == g.groupId = g.groupId

\* maxElementBottom = Math.max(maxElementBottom, bottom)
RaiseBottom(g, bottom) == [g EXCEPT !.maxElementBottom = Max(@, bottom)]

\* a node kept for the edges: GraphNodeInfo & { expr, label, type }
NodeRecord(info, expr, label, kind) ==
    [id |-> info.id, x |-> info.x, y |-> info.y, width |-> info.width,
     height |-> info.height, shape |-> info.shape,
     expr |-> expr, label |-> label, kind |-> kind]

\* the description shown: description, else actionDescription, else a default
ActionDescriptionText(action) ==
    IF Len(trim(action.description)) > 0 THEN trim(action.description)
    ELSE IF Len(trim(action.actionDescription)) > 0 THEN trim(action.actionDescription)
    ELSE T("Action description")

\* getFunctionNodeKey
getFunctionNodeKey(funcExpr) ==
    LET args == funcExpr.arguments
        argSignature ==
            JoinTexts([i \in 1..Len(args) |-> stringifyExpressionArgument(args[i])], <<"|">>)
    IN funcExpr.name \o <<"-">> \o argSignature

\* placePredicateNode of createActionGraph; index counts from 0
placeActionPredicateNode(g, action, startX, extracted, index, type, baseY) ==
    LET predicate == extracted.expr
        x == startX + (index % ACTION_COLUMNS) * NODE_SPACING_X
        y == baseY + (index \div ACTION_COLUMNS) * NODE_SPACING_Y
        nodeId == sanitizeId(T("predicate-") \o action.name \o <<"-", type, "-">>
                             \o NumText(index) \o <<"-">> \o predicate.name)
        fillColor == IF type = "precondition" THEN PRECONDITION_COLOR ELSE EFFECT_COLOR
        label == IF extracted.isNegated THEN <<"not", " ">> \o predicate.name
                 ELSE predicate.name
        nodeInfo == createGraphNodeInfo(nodeId, x, y, NODE_WIDTH, NODE_HEIGHT, "ellipse")
        g1 == registerElement(g, createPredicateNode(label, x, y, nodeId, fillColor))
        g2 == [g1 EXCEPT !.predicateNodes =
                             Append(@, NodeRecord(nodeInfo, predicate, Join(label), type))]
    IN RaiseBottom(g2, y + NODE_HEIGHT)

RECURSIVE placeActionPredicates(_, _, _, _, _, _, _)
\* predicates.forEach((predicate, index) => placePredicateNode(...)) from i
placeActionPredicates(g, action, startX, predicates, i, type, baseY) ==
    IF Built(g) /\ i <= Len(predicates)
    THEN placeActionPredicates(
             placeActionPredicateNode(g, action, startX, predicates[i], i - 1, type, baseY),
             action, startX, predicates, i + 1, type, baseY)
    ELSE g

\* lines 1696-1708: the title node
ActionTitle(g, action, startX, startY) ==
    LET actionTitleId == sanitizeId(T("action-") \o action.name)
        g1 == registerElement(g, createGeometryNode(T("Action: ") \o action.name,
                                    startX, startY, actionTitleId,
                                    ACTION_GROUP_WIDTH, NODE_HEIGHT))
    IN [g1 EXCEPT !.maxElementBottom = startY + NODE_HEIGHT,
                  !.nextSectionY = startY + NODE_SPACING_Y,
                  !.lastSectionStartY = startY,
                  !.lastSectionRows = 0]

\* the id of the description node
ActionDescriptionId(groupId) == sanitizeId(<<groupId, "-description">>)

\* lines 1721-1738: the description node
ActionDescription(g, action, startX) ==
    LET descriptionBaseY == g.nextSectionY
        descriptionHeight == NODE_HEIGHT * 2
        g1 == registerElement(g, createDescriptionNode(ActionDescriptionText(action),
                                    startX, descriptionBaseY, ActionDescriptionId(g.groupId),
                                    ACTION_GROUP_WIDTH, descriptionHeight, "action"))
    IN [g1 EXCEPT !.lastSectionStartY = descriptionBaseY,
                  !.lastSectionRows = Max(1, CeilDiv(descriptionHeight, NODE_SPACING_Y)),
                  !.maxElementBottom = Max(@, descriptionBaseY + descriptionHeight),
                  !.nextSectionY = descriptionBaseY + descriptionHeight + SECTION_GAP]

\* lines 1764-1771: the precondition band
ActionPreconditions(g, action, startX, preconditionPredicates) ==
    IF Len(preconditionPredicates) > 0
    THEN LET preconditionRows == CeilDiv(Len(preconditionPredicates), ACTION_COLUMNS)
             g1 == placeActionPredicates(g, action, startX, preconditionPredicates, 1,
                                         "precondition", g.nextSectionY)
         IN [g1 EXCEPT !.lastSectionStartY = g.nextSectionY,
                       !.lastSectionRows = Max(preconditionRows, 1),
                       !.nextSectionY = @ + preconditionRows * NODE_SPACING_Y + SECTION_GAP]
    ELSE g

\* the body of action.parameters.forEach; index counts from 0
placeParameterNode(g, action, startX, param, index, parameterStartY) ==
    LET width == PARAMETER_NODE_WIDTH
        height == PARAMETER_NODE_HEIGHT
        x == startX + (index % ACTION_COLUMNS) * NODE_SPACING_X
        y == parameterStartY + (index \div ACTION_COLUMNS) * NODE_SPACING_Y
        paramText == IF param.type # <<>> THEN param.name \o <<":", " ">> \o param.type
                     ELSE param.name
        nodeId == sanitizeId(T("param-") \o action.name \o <<"-">> \o param.name)
        g1 == registerElement(g, createGeometryNode(paramText, x, y, nodeId, width, height))
        g2 == [g1 EXCEPT !.parameterNodes =
                   MapSet(@, Join(param.name),
                          createGraphNodeInfo(nodeId, x, y, width, height, "rectangle"))]
    IN RaiseBottom(g2, y + height)

RECURSIVE placeParameters(_, _, _, _, _)
placeParameters(g, action, startX, i, parameterStartY) ==
    IF Built(g) /\ i <= Len(action.parameters)
    THEN placeParameters(
             placeParameterNode(g, action, startX, action.parameters[i], i - 1,
                                parameterStartY),
             action, startX, i + 1, parameterStartY)
    ELSE g

\* lines 1773-1794: the parameter band
ActionParameters(g, action, startX, preconditionPredicates) ==
    LET parameterStartY == g.nextSectionY
        parameterRows == CeilDiv(Len(action.parameters), ACTION_COLUMNS) IN
    IF Len(action.parameters) > 0
    THEN LET g1 == placeParameters(g, action, startX, 1, parameterStartY) IN
         [g1 EXCEPT !.lastSectionStartY = parameterStartY,
                    !.lastSectionRows = Max(parameterRows, 1),
                    !.nextSectionY = @ + parameterRows * NODE_SPACING_Y + SECTION_GAP]
    ELSE IF Len(preconditionPredicates) > 0
    THEN [g EXCEPT !.nextSectionY = @ + SECTION_GAP]
    ELSE g

\* lines 1796-1805: the effect band
ActionEffects(g, action, startX, effectPredicates) ==
    LET effectStartY == g.nextSectionY
        effectRows == CeilDiv(Len(effectPredicates), ACTION_COLUMNS) IN
    IF Len(effectPredicates) > 0
    THEN LET g1 == placeActionPredicates(g, action, startX, effectPredicates, 1,
                                         "effect", effectStartY) IN
         [g1 EXCEPT !.lastSectionStartY = effectStartY,
                    !.lastSectionRows = Max(effectRows, 1),
                    !.nextSectionY = @ + effectRows * NODE_SPACING_Y,
                    !.maxElementBottom = Max(@, effectStartY + effectRows * NODE_SPACING_Y)]
    ELSE g

\* getNumericNodePosition: the position for the node count so far
getNumericNodePosition(g, startX) ==
    [x |-> startX + (g.numericNodeCount % ACTION_COLUMNS) * NODE_SPACING_X,
     y |-> g.numericSectionStartY + (g.numericNodeCount \div ACTION_COLUMNS) * NODE_SPACING_Y]

\* the common body of createLiteralNode and createOperatorNode: take a
\* position, register an ellipse, count the counter named by the kind
createNumericNode(g, action, startX, label, suffix, kind, fillColor) ==
    LET position == getNumericNodePosition(g, startX)
        count == IF kind = "literal" THEN g.literalNodeCounter ELSE g.operatorNodeCounter
        nodeId == sanitizeId(<<kind, "-">> \o action.name \o <<"-">> \o suffix
                             \o <<"-">> \o NumText(count))
        g1 == registerElement(
                  [g EXCEPT !.numericNodeCount = @ + 1,
                            !.literalNodeCounter = IF kind = "literal" THEN @ + 1 ELSE @,
                            !.operatorNodeCounter = IF kind = "literal" THEN @ ELSE @ + 1],
                  createPredicateNode(label, position.x, position.y, nodeId, fillColor))
    IN [g |-> RaiseBottom(g1, position.y + NODE_HEIGHT),
        node |-> createGraphNodeInfo(nodeId, position.x, position.y,
                                     NODE_WIDTH, NODE_HEIGHT, "ellipse")]

createLiteralNode(g, action, startX, label, suffix) ==
    createNumericNode(g, action, startX, label, suffix, "literal", LITERAL_NODE_COLOR)

createOperatorNode(g, action, startX, label, suffix, fillColor) ==
    createNumericNode(g, action, startX, label, suffix, "operator", fillColor)

\* ensureFunctionNode: one node for each function key
ensureFunctionNode(g, action, startX, funcExpr) ==
    LET key == getFunctionNodeKey(funcExpr) IN
    IF MapHas(g.functionNodeMap, Join(key))
    THEN [g |-> g, node |-> g.functionNodeMap[Join(key)]]
    ELSE LET position == getNumericNodePosition(g, startX)
             label == formatFunctionLabel(funcExpr, TRUE)
             nodeId == sanitizeId(T("function-") \o action.name \o <<"-">>
                                  \o sanitizedText(key) \o <<"-">>
                                  \o NumText(g.functionNodeCounter))
             g1 == registerElement(
                      [g EXCEPT !.numericNodeCount = @ + 1, !.functionNodeCounter = @ + 1],
                      createPredicateNode(label, position.x, position.y, nodeId,
                                          FUNCTION_NODE_COLOR))
             info == createGraphNodeInfo(nodeId, position.x, position.y,
                                         NODE_WIDTH, NODE_HEIGHT, "ellipse")
             record == NodeRecord(info, funcExpr, Join(label), "function")
             g2 == [g1 EXCEPT !.functionNodeMap = MapSet(@, Join(key), record),
                              !.functionNodes = Append(@, record)]
         IN [g |-> RaiseBottom(g2, position.y + NODE_HEIGHT), node |-> record]

createNumericEdge(g, action, source, target) ==
    LET edgeId == sanitizeId(T("edge-") \o action.name \o T("-numeric-")
                             \o NumText(g.numericEdgeCounter))
    IN registerElement([g EXCEPT !.numericEdgeCounter = @ + 1],
                       createArrowLine(source, target, edgeId))

\* createNumericEdge(node, parentNode) for the node just made
linkNumericNode(made, action, parentNode) ==
    createNumericEdge(made.g, action, made.node, parentNode)

\* the label of the operator node of an expression inside a numeric effect
OperatorLabel(expr) ==
    LET operatorLabel == IF expr.type = T("predicate") THEN expr.name
                         ELSE getOperatorLabel(expr.type, expr.name)
    IN IF operatorLabel # <<>> THEN operatorLabel ELSE expr.type

RECURSIVE handleArgument(_, _, _, _, _, _)
RECURSIVE handleArguments(_, _, _, _, _, _, _, _)
\* handleArgument, for an expression: the arguments held by one of the
\* properties arguments, children, argument, items
handleProperty(g, action, startX, node, expr, suffix, property) ==
    IF property \notin expr.has THEN g
    ELSE IF property = "arguments"
    THEN handleArguments(g, action, startX, node, expr.arguments, 1, suffix, "-arg-")
    ELSE IF property = "children"
    THEN handleArguments(g, action, startX, node, expr.children, 1, suffix, "-child-")
    ELSE IF property = "items"
    THEN handleArguments(g, action, startX, node, expr.items, 1, suffix, "-item-")
    ELSE IF expr.argument # <<>>
    THEN handleArgument(g, action, startX, node, expr.argument[1], suffix \o T("-argument"))
    ELSE g
\* handleArgument, for an expression: the edge from the operator node made,
\* then the properties in the order of the code
handleExpression(made, action, startX, parentNode, expr, suffix) ==
    handleProperty(
        handleProperty(
            handleProperty(
                handleProperty(linkNumericNode(made, action, parentNode),
                               action, startX, made.node, expr, suffix, "arguments"),
                action, startX, made.node, expr, suffix, "children"),
            action, startX, made.node, expr, suffix, "argument"),
        action, startX, made.node, expr, suffix, "items")
\* handleArgument(parentNode, argument, suffix)
handleArgument(g, action, startX, parentNode, argument, suffix) ==
    IF isTypedParameterArgument(argument)
    THEN IF MapHas(g.parameterNodes, Join(argument.name))
         THEN createNumericEdge(g, action, g.parameterNodes[Join(argument.name)], parentNode)
         ELSE linkNumericNode(
                  createLiteralNode(g, action, startX,
                      IF argument.type # <<>>
                      THEN argument.name \o <<":", " ">> \o argument.type
                      ELSE argument.name,
                      T("param-") \o argument.name \o <<"-">> \o suffix),
                  action, parentNode)
    ELSE IF isFunctionExpressionArgument(argument)
    THEN linkNumericNode(ensureFunctionNode(g, action, startX, argument), action, parentNode)
    ELSE IF isNumberLiteralArgument(argument)
    THEN linkNumericNode(
             createLiteralNode(g, action, startX, NumText(argument.value),
                               T("number-") \o suffix),
             action, parentNode)
    ELSE IF ~isPddlExpressionValue(argument) THEN g
    ELSE handleExpression(
             createOperatorNode(g, action, startX, OperatorLabel(argument),
                 T("operator-") \o argument.type \o <<"-">> \o suffix,
                 IF isNumericEffectExpression(argument) THEN EFFECT_COLOR
                 ELSE OPERATOR_NODE_COLOR),
             action, startX, parentNode, argument, suffix)
\* args.forEach((arg, index) => handleArgument(node, arg, `${suffix}${tag}${index}`))
handleArguments(g, action, startX, parentNode, args, i, suffix, tag) ==
    IF Built(g) /\ i <= Len(args)
    THEN handleArguments(
             handleArgument(g, action, startX, parentNode, args[i],
                            suffix \o <<tag>> \o NumText(i - 1)),
             action, startX, parentNode, args, i + 1, suffix, tag)
    ELSE g

\* the arguments of a numeric effect, under the operator node made for it
handleEffectArguments(made, action, startX, numericExpr, index) ==
    handleArguments(made.g, action, startX, made.node, numericExpr.arguments, 1,
                    T("numeric-") \o NumText(index), "-arg-")

\* the body of numericEffects.forEach; index counts from 0
placeNumericEffect(g, action, startX, numericExpr, index) ==
    LET hasTarget == Len(numericExpr.arguments) > 0
                     /\ isFunctionExpressionArgument(numericExpr.arguments[1])
        label == IF hasTarget
                 THEN numericExpr.type \o <<" ">>
                      \o formatFunctionLabel(numericExpr.arguments[1], FALSE)
                 ELSE numericExpr.type
    IN handleEffectArguments(
           createOperatorNode(g, action, startX, label,
               T("numeric-") \o numericExpr.type \o <<"-">> \o NumText(index),
               EFFECT_COLOR),
           action, startX, numericExpr, index)

RECURSIVE placeNumericEffects(_, _, _, _, _)
placeNumericEffects(g, action, startX, numericEffects, i) ==
    IF Built(g) /\ i <= Len(numericEffects)
    THEN placeNumericEffects(
             placeNumericEffect(g, action, startX, numericEffects[i], i - 1),
             action, startX, numericEffects, i + 1)
    ELSE g

\* lines 1968-1971: the rows of the numeric band, once its nodes are placed
closeNumericSection(g) ==
    LET numericRows == CeilDiv(Max(1, g.numericNodeCount), ACTION_COLUMNS)
    IN [g EXCEPT !.lastSectionStartY = g.numericSectionStartY,
                 !.lastSectionRows = Max(numericRows, 1),
                 !.nextSectionY = g.numericSectionStartY
                                  + Max(1, numericRows) * NODE_SPACING_Y]

\* lines 1807-1972: the numeric effect band
ActionNumericEffects(g, action, startX, effectPredicates, numericEffects) ==
    IF Len(numericEffects) > 0
    THEN closeNumericSection(
             placeNumericEffects(
                 [g EXCEPT !.numericSectionStartY =
                               IF Len(effectPredicates) > 0
                               THEN g.nextSectionY + SECTION_GAP
                               ELSE g.nextSectionY],
                 action, startX, numericEffects, 1))
    ELSE g

\* an edge from the node to a later argument that is a parameter
outEdge(g, action, node, arg) ==
    IF ~MapHas(g.parameterNodes, Join(arg)) THEN g
    ELSE registerElement(
             [g EXCEPT !.edgeIndex = @ + 1],
             createArrowLine(node, g.parameterNodes[Join(arg)],
                 sanitizeId(T("edge-") \o action.name \o <<"-", node.id>>
                            \o T("-out-") \o NumText(g.edgeIndex))))

RECURSIVE outEdges(_, _, _, _, _)
\* for (let i = 1; i < args.length; i += 1); i counts from 2 here
outEdges(g, action, node, args, i) ==
    IF Built(g) /\ i <= Len(args)
    THEN outEdges(outEdge(g, action, node, args[i]), action, node, args, i + 1)
    ELSE g

\* the edge of the first argument drawn from the node to the parameter
inEdgeReversed(g, action, node, arg) ==
    IF ~MapHas(g.parameterNodes, Join(arg)) THEN g
    ELSE registerElement(
             [g EXCEPT !.edgeIndex = @ + 1],
             createArrowLine(node, g.parameterNodes[Join(arg)],
                 sanitizeId(T("edge-") \o action.name \o <<"-", node.id>>
                            \o T("-in-") \o NumText(g.edgeIndex))))

\* an edge from the first argument, when it is a parameter, to the node
inEdge(g, action, node, arg) ==
    IF ~MapHas(g.parameterNodes, Join(arg)) THEN g
    ELSE registerElement(
             [g EXCEPT !.edgeIndex = @ + 1],
             createArrowLine(g.parameterNodes[Join(arg)], node,
                 sanitizeId(T("edge-") \o action.name \o <<"-", node.id>>
                            \o T("-in-") \o NumText(g.edgeIndex))))

\* the body of predicateNodes.forEach and of functionNodes.forEach
nodeEdges(g, action, node) ==
    LET args == extractExpressionArguments(node.expr) IN
    IF Len(args) = 0 THEN g
    ELSE outEdges(inEdge(g, action, node, args[1]), action, node, args, 2)

RECURSIVE nodesEdges(_, _, _, _)
nodesEdges(g, action, nodes, i) ==
    IF Built(g) /\ i <= Len(nodes)
    THEN nodesEdges(nodeEdges(g, action, nodes[i]), action, nodes, i + 1)
    ELSE g

\* lines 2003-2029: the edges of the function nodes
functionNodesEdges(g, action) == nodesEdges(g, action, g.functionNodes, 1)

\* lines 1974-2029: the edges of the predicate nodes, then of the function nodes
ActionEdges(g, action) ==
    functionNodesEdges(nodesEdges(g, action, g.predicateNodes, 1), action)

\* the group element of an action or a problem
GroupElement(groupId, dataType, description, descriptionIds, elementIds) ==
    [BaseElement EXCEPT !.id = groupId, !.type = "group", !.dataType = dataType,
                        !.description = Join(description),
                        !.descriptionIds = descriptionIds, !.elementIds = elementIds]

\* lines 2031-2053: the group element first, then the elements registered
ActionGraph(g, action, startY) ==
    LET groupElement == GroupElement(g.groupId, "action", ActionDescriptionText(action),
                                     <<ActionDescriptionId(g.groupId)>>,
                                     g.groupedElementIds)
        lastSectionBottomY ==
            Max(g.maxElementBottom,
                IF g.lastSectionRows > 0
                THEN g.lastSectionStartY + g.lastSectionRows * NODE_SPACING_Y
                ELSE startY + NODE_SPACING_Y)
    IN [elements |-> <<groupElement>> \o g.elements,
        width |-> ACTION_GROUP_WIDTH,
        height |-> lastSectionBottomY - startY + NODE_HEIGHT]

\* createActionGraph(action, startX, startY) when actionGroupCounter is counter
createActionGraph(action, startX, startY, counter) ==
    LET groupId == sanitizeId(T("group-") \o action.name \o <<"-">> \o NumText(counter))
        preconditionPredicates == extractAllPredicates(action.preconditions)
        effectPredicates == extractAllPredicates(action.effects)
        numericEffects == extractNumericEffects(action.effects)
        g1 == ActionTitle(NewBuilder(groupId, startY), action, startX, startY)
        g2 == ActionDescription(g1, action, startX)
        g3 == ActionPreconditions(g2, action, startX, preconditionPredicates)
        g4 == ActionParameters(g3, action, startX, preconditionPredicates)
        g5 == ActionEffects(g4, action, startX, effectPredicates)
        g6 == ActionNumericEffects(g5, action, startX, effectPredicates, numericEffects)
    IN ActionGraph(ActionEdges(g6, action), action, startY)

-----------------------------------------------------------------------------
(* pddl-to-graph.ts: createProblemGraph.  As for an action, the locals are  *)
(* the fields of one record g; lay holds the constants of the layout.       *)

Digits == {"0", "1", "2", "3", "4", "5", "6", "7", "8", "9"}

\* isNumericString, for the texts of the model: digits between whitespace
isNumericString(value) ==
    LET trimmed == trim(value) IN
    trimmed # <<>> /\ \A i \in 1..Len(trimmed) : trimmed[i] \in Digits

\* getNumericLiteralText for an object argument; <<>> stands for null
getNumericLiteralText(argument) ==
    IF isNumberLiteralArgument(argument) THEN NumText(argument.value)
    ELSE IF "type" \in argument.has
            /\ argument.type \in {T("function"), T("predicate"), T("not"), T("increase"),
                                  T("decrease"), T("assign"), T("scale-up"), T("scale-down")}
    THEN <<>>
    ELSE IF \/ argument.has \cap {"arguments", "children", "items"} # {}
            \/ argument.argument # <<>>
    THEN <<>>
    ELSE IF "value" \in argument.has THEN NumText(argument.value)
    ELSE IF "name" \in argument.has /\ isNumericString(argument.name) THEN trim(argument.name)
    ELSE <<>>

NewProblemBuilder(groupId, startY) ==
    [groupId |-> groupId, elements |-> <<>>, groupedElementIds |-> <<>>,
     objectNodes |-> EmptyMap, predicateNodes |-> <<>>, functionNodes |-> <<>>,
     predicateNodeInfosByCategory |-> [init |-> EmptyMap, goal |-> EmptyMap],
     functionNodesByCategory |-> [init |-> EmptyMap, goal |-> EmptyMap],
     comparatorNodesByCategory |-> [init |-> EmptyMap, goal |-> EmptyMap],
     maxElementBottom |-> startY, nextSectionY |-> startY,
     lastSectionStartY |-> startY, lastSectionRows |-> 1,
     functionNodeCounter |-> 0, valueNodeCounter |-> 0,
     comparatorNodeCounter |-> 0, comparatorEdgeCounter |-> 0,
     argumentNodeCounter |-> 0, operatorNodeCounter |-> 0,
     comparatorRecords |-> <<>>, objectSectionBottomY |-> startY, edgeIndex |-> 0]

\* getArgumentPosition / getOperatorPosition for the index given
getSectionPosition(lay, index, baseY) ==
    [x |-> lay.contentStartX + (index % lay.comparatorColumns) * NODE_SPACING_X,
     y |-> baseY + (index \div lay.comparatorColumns) * NODE_SPACING_Y]

\* createFunctionNodeForExpression with getPosition = getArgumentPosition
createFunctionNodeForExpression(g, problem, lay, funcExpr, category, suffix, baseY) ==
    LET label == formatFunctionLabel(funcExpr, FALSE)
        functionKey == Join(label)
        known == MapHas(g.functionNodesByCategory[category], functionKey)
        position == getSectionPosition(lay, g.argumentNodeCounter, baseY)
        nodeId == sanitizeId(T("function-") \o problem.name \o <<"-", category, "-">>
                             \o suffix \o <<"-">> \o NumText(g.functionNodeCounter)
                             \o <<"-">> \o funcExpr.name)
        info == IF known THEN g.functionNodesByCategory[category][functionKey]
                ELSE createGraphNodeInfo(nodeId, position.x, position.y,
                                         NODE_WIDTH, NODE_HEIGHT, "ellipse")
        g1 == IF known THEN g
              ELSE LET r == registerElement(
                               [g EXCEPT !.argumentNodeCounter = @ + 1,
                                         !.functionNodeCounter = @ + 1],
                               createPredicateNode(label, position.x, position.y, nodeId,
                                                   FUNCTION_NODE_COLOR))
                   IN RaiseBottom(
                          [r EXCEPT !.functionNodesByCategory[category] =
                                        MapSet(@, functionKey, info)],
                          position.y + NODE_HEIGHT)
    IN [g |-> [g1 EXCEPT !.functionNodes =
                             Append(@, NodeRecord(info, funcExpr, functionKey, category))],
        node |-> <<info>>, literalText |-> <<>>]

\* createComparatorArgumentNode; argument is <<>> when args[i] is undefined
createComparatorArgumentNode(g, problem, lay, argument, category, suffix, baseY) ==
    IF argument = <<>> THEN [g |-> g, node |-> <<>>, literalText |-> <<>>]
    ELSE IF isFunctionExpressionArgument(argument[1])
    THEN createFunctionNodeForExpression(g, problem, lay, argument[1], category, suffix, baseY)
    ELSE IF getNumericLiteralText(argument[1]) # <<>>
    THEN [g |-> g, node |-> <<>>, literalText |-> getNumericLiteralText(argument[1])]
    ELSE LET label == stringifyExpressionArgument(argument[1])
             position == getSectionPosition(lay, g.argumentNodeCounter, baseY)
             nodeId == sanitizeId(T("literal-") \o problem.name \o <<"-", category, "-">>
                                  \o suffix \o <<"-">> \o NumText(g.valueNodeCounter))
             g1 == registerElement(
                      [g EXCEPT !.argumentNodeCounter = @ + 1, !.valueNodeCounter = @ + 1],
                      createPredicateNode(label, position.x, position.y, nodeId,
                                          FUNCTION_NODE_COLOR))
         IN [g |-> RaiseBottom(g1, position.y + NODE_HEIGHT),
             node |-> <<createGraphNodeInfo(nodeId, position.x, position.y,
                                            NODE_WIDTH, NODE_HEIGHT, "ellipse")>>,
             literalText |-> <<>>]

\* args[i] of a comparator, <<>> when there is none; i counts from 1
ArgumentAt(expr, i) ==
    IF "arguments" \in expr.has /\ i <= Len(expr.arguments) THEN <<expr.arguments[i]>>
    ELSE <<>>

\* comparatorRecords.push({...}) for the two arguments made
pushComparatorRecord(leftArg, rightArg, expr, index) ==
    LET comparatorSymbol == getComparatorLabel(expr.type)
        Shown(segment) == Len(trim(segment)) > 0
        operatorLabelSegments ==
            SelectSeq(<<leftArg.literalText, comparatorSymbol, rightArg.literalText>>, Shown)
        operatorLabel == IF Len(operatorLabelSegments) > 0
                         THEN JoinTexts(operatorLabelSegments, <<" ">>)
                         ELSE comparatorSymbol
        leftLiteralKey == trim(leftArg.literalText)
        rightLiteralKey == trim(rightArg.literalText)
        hasLiteralKey == Len(leftLiteralKey) > 0 \/ Len(rightLiteralKey) > 0
        comparatorKey == IF hasLiteralKey
                         THEN <<Join(comparatorSymbol \o <<"|">> \o leftLiteralKey
                                     \o <<"|">> \o rightLiteralKey)>>
                         ELSE <<>>
    IN [rightArg.g EXCEPT !.comparatorRecords =
            Append(@, [index |-> index, operatorLabel |-> operatorLabel,
                       comparatorKey |-> comparatorKey,
                       leftNode |-> leftArg.node, rightNode |-> rightArg.node])]

\* the right argument of a comparator, after the left one
placeRightArgument(leftArg, problem, lay, expr, index, category, baseY) ==
    pushComparatorRecord(
        leftArg,
        createComparatorArgumentNode(leftArg.g, problem, lay, ArgumentAt(expr, 2), category,
            T("comp-right-") \o <<category, "-">> \o NumText(index), baseY),
        expr, index)

\* the body of comparators.forEach: the argument nodes and the record
placeComparatorArguments(g, problem, lay, expr, index, category, baseY) ==
    placeRightArgument(
        createComparatorArgumentNode(g, problem, lay, ArgumentAt(expr, 1), category,
            T("comp-left-") \o <<category, "-">> \o NumText(index), baseY),
        problem, lay, expr, index, category, baseY)

RECURSIVE placeComparatorsArguments(_, _, _, _, _, _, _)
placeComparatorsArguments(g, problem, lay, comparators, i, category, baseY) ==
    IF Built(g) /\ i <= Len(comparators)
    THEN placeComparatorsArguments(
             placeComparatorArguments(g, problem, lay, comparators[i], i - 1, category, baseY),
             problem, lay, comparators, i + 1, category, baseY)
    ELSE g

\* the operator node of a comparator record, made unless its key is known
comparatorOperatorNode(g, record, category, known, operatorInfo) ==
    IF known THEN g
    ELSE RaiseBottom(
             [registerElement(
                  [g EXCEPT !.operatorNodeCounter = @ + 1, !.comparatorNodeCounter = @ + 1],
                  createPredicateNode(record.operatorLabel, operatorInfo.x, operatorInfo.y,
                                      operatorInfo.id, OPERATOR_NODE_COLOR))
              EXCEPT !.comparatorNodesByCategory[category] =
                         IF record.comparatorKey # <<>>
                         THEN MapSet(@, record.comparatorKey[1], operatorInfo)
                         ELSE @],
             operatorInfo.y + NODE_HEIGHT)

\* an edge of a comparator, when both its ends are there
comparatorEdge(g, problem, category, tag, source, target) ==
    IF source = <<>> \/ target = <<>> THEN g
    ELSE registerElement(
             [g EXCEPT !.comparatorEdgeCounter = @ + 1],
             createArrowLine(source[1], target[1],
                 sanitizeId(T("comp-edge-") \o problem.name \o <<"-", category, tag>>
                            \o NumText(g.comparatorEdgeCounter))))

\* the edge from the left node, then the edge to the right node
comparatorEdges(g, problem, record, category, operatorInfo) ==
    comparatorEdge(
        comparatorEdge(g, problem, category, "-in-", record.leftNode, <<operatorInfo>>),
        problem, category, "-out-", <<operatorInfo>>, record.rightNode)

\* the body of comparatorRecords.forEach without the lookup of the key
placeComparatorOperatorAnew(g, problem, lay, record, category, operatorBaseY) ==
    LET position == getSectionPosition(lay, g.operatorNodeCounter, operatorBaseY)
        operatorId == sanitizeId(T("operator-") \o problem.name \o <<"-", category, "-">>
                                 \o NumText(record.index) \o <<"-">>
                                 \o NumText(g.comparatorNodeCounter))
        operatorInfo == createGraphNodeInfo(operatorId, position.x, position.y,
                                            NODE_WIDTH, NODE_HEIGHT, "ellipse")
    IN comparatorEdges(comparatorOperatorNode(g, record, category, FALSE, operatorInfo),
                       problem, record, category, operatorInfo)

\* the body of comparatorRecords.forEach: the operator node and its edges
placeComparatorOperator(g, problem, lay, record, category, operatorBaseY) ==
    LET known == record.comparatorKey # <<>>
                 /\ MapHas(g.comparatorNodesByCategory[category], record.comparatorKey[1])
        position == getSectionPosition(lay, g.operatorNodeCounter, operatorBaseY)
        operatorId == sanitizeId(T("operator-") \o problem.name \o <<"-", category, "-">>
                                 \o NumText(record.index) \o <<"-">>
                                 \o NumText(g.comparatorNodeCounter))
        operatorInfo ==
            IF known THEN g.comparatorNodesByCategory[category][record.comparatorKey[1]]
            ELSE createGraphNodeInfo(operatorId, position.x, position.y,
                                     NODE_WIDTH, NODE_HEIGHT, "ellipse")
    IN comparatorEdges(comparatorOperatorNode(g, record, category, known, operatorInfo),
                       problem, record, category, operatorInfo)

RECURSIVE placeComparatorOperators(_, _, _, _, _, _, _)
placeComparatorOperators(g, problem, lay, records, i, category, operatorBaseY) ==
    IF Built(g) /\ i <= Len(records)
    THEN placeComparatorOperators(
             placeComparatorOperator(g, problem, lay, records[i], category, operatorBaseY),
             problem, lay, records, i + 1, category, operatorBaseY)
    ELSE g

\* placeComparatorSection, lines 2327-2334: the rows of the section, once
\* the operator nodes are placed; the value returned is left in nextSectionY
closeComparatorSection(g, lay, baseY, operatorBaseY) ==
    LET operatorRows == IF g.operatorNodeCounter = 0 THEN 0
                        ELSE CeilDiv(g.operatorNodeCounter, lay.comparatorColumns)
        operatorSectionHeight == operatorRows * NODE_SPACING_Y
        \* argumentSectionHeight + colorRowGap is operatorBaseY - baseY
        sectionHeight == (operatorBaseY - baseY) + operatorSectionHeight
    IN [g EXCEPT !.maxElementBottom = Max(@, operatorBaseY + operatorSectionHeight),
                 !.lastSectionStartY = baseY,
                 !.lastSectionRows = Max(@, CeilDiv(sectionHeight, NODE_SPACING_Y)),
                 !.nextSectionY = baseY + sectionHeight + SECTION_GAP]

\* placeComparatorSection, lines 2276-2325: the operator nodes, under the
\* rows of the argument nodes placed
placeOperatorRows(g, problem, lay, category, baseY) ==
    LET argumentRows == IF g.argumentNodeCounter = 0 THEN 0
                        ELSE CeilDiv(g.argumentNodeCounter, lay.comparatorColumns)
        argumentSectionHeight == argumentRows * NODE_SPACING_Y
        colorRowGap == IF argumentSectionHeight > 0 THEN SECTION_GAP ELSE 0
        operatorBaseY == baseY + argumentSectionHeight + colorRowGap
    IN closeComparatorSection(
           placeComparatorOperators([g EXCEPT !.operatorNodeCounter = 0], problem, lay,
                                    g.comparatorRecords, 1, category, operatorBaseY),
           lay, baseY, operatorBaseY)

\* placeComparatorSection(comparators, category, nextSectionY)
placeComparatorSection(g, problem, lay, comparators, category) ==
    IF Len(comparators) = 0 THEN g
    ELSE placeOperatorRows(
             placeComparatorsArguments(
                 [g EXCEPT !.argumentNodeCounter = 0, !.comparatorRecords = <<>>],
                 problem, lay, comparators, 1, category, g.nextSectionY),
             problem, lay, category, g.nextSectionY)

\* placePredicateNode of createProblemGraph; index counts from 0
placeProblemPredicateNode(g, problem, lay, extracted, index, category, baseY) ==
    LET predicate == extracted.expr
        x == lay.contentStartX + (index % lay.problemColumns) * NODE_SPACING_X
        y == baseY + (index \div lay.problemColumns) * NODE_SPACING_Y
        nodeId == sanitizeId(T("problem-") \o problem.name \o <<"-", category, "-">>
                             \o NumText(index) \o <<"-">> \o predicate.name)
        fillColor == IF category = "init" THEN PRECONDITION_COLOR ELSE EFFECT_COLOR
        label == getPredicateLabel(extracted)
    IN IF MapHas(g.predicateNodeInfosByCategory[category], Join(label)) THEN g
       ELSE LET nodeInfo == createGraphNodeInfo(nodeId, x, y, NODE_WIDTH, NODE_HEIGHT,
                                                "ellipse")
                g1 == registerElement(g, createPredicateNode(label, x, y, nodeId, fillColor))
            IN RaiseBottom([g1 EXCEPT !.predicateNodeInfosByCategory[category] =
                                          MapSet(@, Join(label), nodeInfo)],
                           y + NODE_HEIGHT)

RECURSIVE placeProblemPredicates(_, _, _, _, _, _, _)
placeProblemPredicates(g, problem, lay, predicates, i, category, baseY) ==
    IF Built(g) /\ i <= Len(predicates)
    THEN placeProblemPredicates(
             placeProblemPredicateNode(g, problem, lay, predicates[i], i - 1, category, baseY),
             problem, lay, predicates, i + 1, category, baseY)
    ELSE g

\* the body of placePredicateNode without the lookup of the label
placeRepeatedPredicateNode(g, problem, lay, extracted, index, category, baseY) ==
    LET x == lay.contentStartX + (index % lay.problemColumns) * NODE_SPACING_X
        y == baseY + (index \div lay.problemColumns) * NODE_SPACING_Y
        nodeId == sanitizeId(T("problem-") \o problem.name \o <<"-", category, "-">>
                             \o NumText(index) \o <<"-">> \o extracted.expr.name)
        fillColor == IF category = "init" THEN PRECONDITION_COLOR ELSE EFFECT_COLOR
        label == getPredicateLabel(extracted)
        g1 == registerElement(g, createPredicateNode(label, x, y, nodeId, fillColor))
    IN RaiseBottom([g1 EXCEPT !.predicateNodeInfosByCategory[category] =
                       MapSet(@, Join(label),
                              createGraphNodeInfo(nodeId, x, y, NODE_WIDTH, NODE_HEIGHT,
                                                  "ellipse"))],
                   y + NODE_HEIGHT)

RECURSIVE placeRepeatedPredicates(_, _, _, _, _, _, _)
placeRepeatedPredicates(g, problem, lay, predicates, i, category, baseY) ==
    IF Built(g) /\ i <= Len(predicates)
    THEN placeRepeatedPredicates(
             placeRepeatedPredicateNode(g, problem, lay, predicates[i], i - 1, category, baseY),
             problem, lay, predicates, i + 1, category, baseY)
    ELSE g

\* a mutant of the band of predicate nodes: every extracted predicate gets a
\* node, repeated or not
ProblemPredicatesRepeated(g, problem, lay, uniquePredicates, category) ==
    LET predicates == extractAllPredicates(IF category = "init" THEN problem.init
                                           ELSE problem.goal)
        rows == CeilDiv(Len(predicates), lay.problemColumns)
        g1 == placeRepeatedPredicates(g, problem, lay, predicates, 1, category,
                                      g.nextSectionY)
    IN IF Len(predicates) > 0
       THEN [g1 EXCEPT !.lastSectionStartY = g.nextSectionY,
                       !.lastSectionRows = Max(@, rows),
                       !.nextSectionY = @ + rows * NODE_SPACING_Y + SECTION_GAP]
       ELSE g

\* lines 2364-2372 and 2400-2408: a band of predicate nodes
ProblemPredicates(g, problem, lay, uniquePredicates, category) ==
    IF Len(uniquePredicates) > 0
    THEN LET rows == CeilDiv(Len(uniquePredicates), lay.problemColumns)
             g1 == placeProblemPredicates(g, problem, lay, uniquePredicates, 1, category,
                                          g.nextSectionY)
         IN [g1 EXCEPT !.lastSectionStartY = g.nextSectionY,
                       !.lastSectionRows = Max(@, rows),
                       !.nextSectionY = @ + rows * NODE_SPACING_Y + SECTION_GAP]
    ELSE g

\* the body of objects.forEach; index counts from 0
placeObjectNode(g, problem, lay, object, index, objectStartY) ==
    LET width == PARAMETER_NODE_WIDTH
        height == PARAMETER_NODE_HEIGHT
        x == lay.contentStartX + (index % lay.problemColumns) * NODE_SPACING_X
        y == objectStartY + (index \div lay.problemColumns) * NODE_SPACING_Y
        nodeId == sanitizeId(T("object-") \o problem.name \o <<"-">> \o object.name)
        label == IF object.type # <<>> THEN object.name \o <<":", " ">> \o object.type
                 ELSE object.name
        g1 == registerElement(g, createGeometryNode(label, x, y, nodeId, width, height))
    IN RaiseBottom([g1 EXCEPT !.objectNodes =
                       MapSet(@, Join(object.name),
                              createGraphNodeInfo(nodeId, x, y, width, height, "rectangle"))],
                   y + height)

RECURSIVE placeObjects(_, _, _, _, _)
placeObjects(g, problem, lay, i, objectStartY) ==
    IF Built(g) /\ i <= Len(problem.objects)
    THEN placeObjects(
             placeObjectNode(g, problem, lay, problem.objects[i], i - 1, objectStartY),
             problem, lay, i + 1, objectStartY)
    ELSE g

\* lines 2374-2396: the object band; objectSectionBottomY is kept for the
\* goal description
ProblemObjects(g, problem, lay) ==
    LET objectStartY == g.nextSectionY
        objectSectionTopY == g.nextSectionY
        objectRows == IF Len(problem.objects) > 0
                      THEN CeilDiv(Len(problem.objects), lay.problemColumns)
                      ELSE 0
        objectSectionBottomY ==
            IF objectRows > 0 THEN objectSectionTopY + objectRows * NODE_SPACING_Y
            ELSE objectSectionTopY
    IN IF Len(problem.objects) > 0
       THEN [placeObjects(g, problem, lay, 1, objectStartY)
             EXCEPT !.lastSectionStartY = objectStartY,
                    !.lastSectionRows = Max(@, objectRows),
                    !.nextSectionY = @ + objectRows * NODE_SPACING_Y + SECTION_GAP,
                    !.objectSectionBottomY = objectSectionBottomY]
       ELSE [g EXCEPT !.objectSectionBottomY = objectSectionBottomY]

\* the texts of the two descriptions
ProblemDescriptionText(text, default) ==
    IF Len(trim(text)) > 0 THEN trim(text) ELSE T(default)

\* lines 2412-2442: the two description nodes of the sidebar
ProblemDescriptions(g, problem, lay, startX) ==
    LET initDescriptionY == 150
        minGoalDescriptionY == g.objectSectionBottomY + SECTION_GAP
        goalDescriptionY == Max(g.objectSectionBottomY - lay.descriptionHeight,
                                minGoalDescriptionY)
        g1 == registerElement(g,
                  createDescriptionNode(
                      ProblemDescriptionText(problem.initDescription, "Init description"),
                      startX, initDescriptionY,
                      sanitizeId(<<g.groupId, "-init-description">>),
                      lay.descriptionWidth, lay.descriptionHeight, "problem-init"))
        g2 == RaiseBottom(g1, initDescriptionY + lay.descriptionHeight)
        g3 == registerElement(g2,
                  createDescriptionNode(
                      ProblemDescriptionText(problem.goalDescription, "Goal description"),
                      startX, goalDescriptionY,
                      sanitizeId(<<g.groupId, "-goal-description">>),
                      lay.descriptionWidth, lay.descriptionHeight \div 2, "problem-goal"))
    IN RaiseBottom(g3, goalDescriptionY + lay.descriptionHeight)

\* the body of predicates.forEach in assignPredicateNodesForEdges
assignPredicateNode(g, extracted, category) ==
    LET label == Join(getPredicateLabel(extracted))
        map == g.predicateNodeInfosByCategory[category]
    IN IF ~MapHas(map, label) THEN g
       ELSE [g EXCEPT !.predicateNodes =
                          Append(@, NodeRecord(map[label], extracted.expr, label, category))]

RECURSIVE assignPredicateNodesForEdges(_, _, _, _)
\* assignPredicateNodesForEdges from index i
assignPredicateNodesForEdges(g, predicates, i, category) ==
    IF Built(g) /\ i <= Len(predicates)
    THEN assignPredicateNodesForEdges(assignPredicateNode(g, predicates[i], category),
                                      predicates, i + 1, category)
    ELSE g

\* an edge from the node to a later argument that is an object
problemOutEdge(g, prefix, node, arg) ==
    IF ~MapHas(g.objectNodes, Join(arg)) THEN g
    ELSE registerElement(
             [g EXCEPT !.edgeIndex = @ + 1],
             createArrowLine(node, g.objectNodes[Join(arg)],
                 sanitizeId(<<prefix, node.id>> \o T("-out-") \o NumText(g.edgeIndex))))

RECURSIVE problemOutEdges(_, _, _, _, _)
\* for (let i = 1; i < args.length; i += 1) of createProblemGraph
problemOutEdges(g, prefix, node, args, i) ==
    IF Built(g) /\ i <= Len(args)
    THEN problemOutEdges(problemOutEdge(g, prefix, node, args[i]), prefix, node, args, i + 1)
    ELSE g

\* an edge from the first argument, when it is an object, to the node
problemInEdge(g, prefix, node, arg) ==
    IF ~MapHas(g.objectNodes, Join(arg)) THEN g
    ELSE registerElement(
             [g EXCEPT !.edgeIndex = @ + 1],
             createArrowLine(g.objectNodes[Join(arg)], node,
                 sanitizeId(<<prefix, node.id>> \o T("-in-") \o NumText(g.edgeIndex))))

\* the body of predicateNodes.forEach and functionNodes.forEach of a problem
problemNodeEdges(g, prefix, node) ==
    LET args == extractExpressionArguments(node.expr) IN
    IF Len(args) = 0 THEN g
    ELSE problemOutEdges(problemInEdge(g, prefix, node, args[1]), prefix, node, args, 2)

RECURSIVE problemNodesEdges(_, _, _, _)
problemNodesEdges(g, prefix, nodes, i) ==
    IF Built(g) /\ i <= Len(nodes)
    THEN problemNodesEdges(problemNodeEdges(g, prefix, nodes[i]), prefix, nodes, i + 1)
    ELSE g

\* lines 2494-2514: the edges of the function nodes
problemFunctionNodesEdges(g) ==
    problemNodesEdges(g, "problem-function-edge-", g.functionNodes, 1)

\* lines 2467-2514: the edges of the predicate nodes, then of the function nodes
ProblemEdges(g) ==
    problemFunctionNodesEdges(problemNodesEdges(g, "problem-edge-", g.predicateNodes, 1))

\* lines 2109-2133: the columns and the widths of the layout
ProblemLayout(problem, startX) ==
    LET uniqueInitPredicates == getUniquePredicates(extractAllPredicates(problem.init))
        initComparators == extractComparatorExpressions(problem.init)
        uniqueGoalPredicates == getUniquePredicates(extractAllPredicates(problem.goal))
        goalComparators == extractComparatorExpressions(problem.goal)
        maxCount == Max(1, Max(Len(uniqueInitPredicates) + Len(initComparators),
                               Max(Len(problem.objects),
                                   Len(uniqueGoalPredicates) + Len(goalComparators))))
        problemColumns == Min(PROBLEM_MAX_COLUMNS, maxCount)
        problemWidth == NODE_WIDTH + NODE_SPACING_X * (problemColumns - 1)
        descriptionWidth == Min(problemWidth, NODE_WIDTH * 6)
        sidebarGap == NODE_SPACING_X \div 2
    IN [problemColumns |-> problemColumns,
        comparatorColumns |-> Max(1, Min(PROBLEM_MAX_COLUMNS, problemColumns)),
        contentStartX |-> startX + descriptionWidth + sidebarGap,
        descriptionHeight |-> NODE_HEIGHT * 8,
        descriptionWidth |-> descriptionWidth,
        width |-> descriptionWidth + sidebarGap + problemWidth]

\* lines 2516-2537: the group element first, then the elements registered
ProblemGraph(g, problem, lay, startY) ==
    LET groupElement ==
            GroupElement(g.groupId, "problem", T("Problem: ") \o problem.name,
                         <<sanitizeId(<<g.groupId, "-init-description">>),
                           sanitizeId(<<g.groupId, "-goal-description">>)>>,
                         g.groupedElementIds)
        lastSectionBottomY ==
            Max(g.maxElementBottom, g.lastSectionStartY + g.lastSectionRows * NODE_SPACING_Y)
    IN [elements |-> <<groupElement>> \o g.elements,
        width |-> lay.width,
        height |-> lastSectionBottomY - startY + NODE_HEIGHT]

\* the body of createProblemGraph for the layout computed
createProblemGraphIn(problem, lay, startX, startY, counter) ==
    LET groupId == sanitizeId(T("problem-") \o problem.name \o <<"-">> \o NumText(counter))
        initPredicates == extractAllPredicates(problem.init)
        initComparators == extractComparatorExpressions(problem.init)
        goalPredicates == extractAllPredicates(problem.goal)
        goalComparators == extractComparatorExpressions(problem.goal)
        \* if (initComparators.length > 0): placeComparatorSection leaves the
        \* builder as it is when there is no comparator
        g1 == placeComparatorSection(NewProblemBuilder(groupId, startY), problem, lay,
                                     initComparators, "init")
        g2 == ProblemPredicates(g1, problem, lay, getUniquePredicates(initPredicates), "init")
        g3 == ProblemObjects(g2, problem, lay)
        g4 == ProblemPredicates(g3, problem, lay, getUniquePredicates(goalPredicates), "goal")
        g5 == placeComparatorSection(g4, problem, lay, goalComparators, "goal")
        g6 == ProblemDescriptions(g5, problem, lay, startX)
        g7 == assignPredicateNodesForEdges(g6, initPredicates, 1, "init")
        g8 == assignPredicateNodesForEdges(g7, goalPredicates, 1, "goal")
    IN ProblemGraph(ProblemEdges(g8), problem, lay, startY)

\* lines 2095-2108: initExpressions, goalExpressions and objects, each an
\* empty array when the property of the problem is null or undefined
guardedProblem(problem) ==
    [problem EXCEPT !.init = IF "init" \in problem.absent THEN <<>> ELSE @,
                    !.goal = IF "goal" \in problem.absent THEN <<>> ELSE @,
                    !.objects = IF "objects" \in problem.absent THEN <<>> ELSE @]

\* the body of createProblemGraph on the guarded lists
createProblemGraphOn(problem, startX, startY, counter) ==
    createProblemGraphIn(problem, ProblemLayout(problem, startX), startX, startY, counter)

\* createProblemGraph(problem, startX, startY) when problemGroupCounter is counter
createProblemGraph(problem, startX, startY, counter) ==
    createProblemGraphOn(guardedProblem(problem), startX, startY, counter)

RECURSIVE actionGraphs(_, _, _, _)
\* the step of createDomainGraph without the width of the block
actionGraphsAfterNarrow(graph, actions, i, currentX, counter) ==
    graph.elements
    \o actionGraphs(actions, i + 1, currentX + NODE_SPACING_X, counter + 1)

\* allElements.push(...elements); currentX += width + NODE_SPACING_X, then
\* the actions after the one whose graph is given
actionGraphsAfter(graph, actions, i, currentX, counter) ==
    graph.elements
    \o actionGraphs(actions, i + 1, currentX + graph.width + NODE_SPACING_X, counter + 1)
\* actions.forEach of createDomainGraph from index i, with currentX and the
\* value of actionGroupCounter
actionGraphs(actions, i, currentX, counter) ==
    IF i > Len(actions) THEN <<>>
    ELSE actionGraphsAfter(createActionGraph(actions[i], currentX, START_Y, counter),
                           actions, i, currentX, counter)

\* line 2544: Array.isArray(domain.actions) ? domain.actions : []
domainActions(domain) == IF "actions" \in domain.absent THEN <<>> ELSE domain.actions

\* the line of createActionGraph that throws a TypeError for the action, 0
\* when none does: extractAllPredicates and extractNumericEffects call
\* forEach on their argument (1710-1712) and line 1714 reads
\* action.parameters.length
typeErrorLine(action) ==
    IF "preconditions" \in action.absent THEN 1710
    ELSE IF "effects" \in action.absent THEN 1711
    ELSE IF "parameters" \in action.absent THEN 1714
    ELSE 0

\* the index of the first action whose createActionGraph throws, 0 when
\* none does
firstThrowing(actions) ==
    IF \E i \in 1..Len(actions) : typeErrorLine(actions[i]) # 0
    THEN CHOOSE i \in 1..Len(actions) :
             /\ typeErrorLine(actions[i]) # 0
             /\ \A j \in 1..(i - 1) : typeErrorLine(actions[j]) = 0
    ELSE 0

\* a mutant of createDomainGraph: the first column depends on the counter
createDomainGraphShifted(domain, counter) ==
    actionGraphs(domainActions(domain), 1, START_X + counter * NODE_SPACING_X, counter)

\* createDomainGraph(domain) when actionGroupCounter is counter and no
\* action throws
createDomainGraph(domain, counter) ==
    actionGraphs(domainActions(domain), 1, START_X, counter)

-----------------------------------------------------------------------------
(* Structured inputs of the converters.                                     *)

\* PddlAction; absent holds the names of the properties that are null or
\* undefined in the object, and such a property is <<>> in the record
Action(name, parameters, preconditions, effects) ==
    [name |-> name, description |-> <<>>, actionDescription |-> <<>>,
     parameters |-> parameters, preconditions |-> preconditions, effects |-> effects,
     absent |-> {}]

\* PddlDomain, the part the converter reads
Domain(name, actions) == [name |-> name, actions |-> actions, absent |-> {}]

\* PddlProblem, the part the converter reads; goal is <<>> for null
Problem(name, objects, init, goal) ==
    [name |-> name, objects |-> objects, init |-> init, goal |-> goal,
     initDescription |-> <<>>, goalDescription |-> <<>>, absent |-> {}]

And(children) == WithChildren(T("and"), children)

pR == TypedParameter(<<"?", "r">>, T("robot"))
pFrom == TypedParameter(<<"?", "from">>, T("room"))
pTo == TypedParameter(<<"?", "to">>, T("room"))
pX == TypedParameter(<<"?", "x">>, <<>>)
AtFrom == Predicate(T("at"), <<pR, pFrom>>)
AtTo == Predicate(T("at"), <<pR, pTo>>)
Connected == Predicate(T("connected"), <<pFrom, pTo>>)
Px == Predicate(T("p"), <<pX>>)
Fuel == Function(T("fuel"), <<pR>>)
TotalCost == Function(T("total-cost"), <<>>)

\* the precondition and the effect of the move action
MovePrecondition == <<And(<<AtFrom, Connected>>)>>
MoveEffect == <<And(<<Not(AtFrom), AtTo>>)>>

ActionNames == {T("move"), <<"pick", " ", "up">>}

ParameterLists ==
    {<<>>, <<pR, pFrom, pTo>>, <<pR, pR>>, <<pR, pFrom, pTo, pX>>}

PreconditionLists ==
    {<<>>, MovePrecondition, <<Not(Not(Px))>>, <<Not(Not(Not(Px)))>>,
     <<AtFrom, AtFrom, Not(AtFrom)>>,
     <<WithItems(T("and"), <<Not(WithArgument(T("forall"), AtTo)), Connected>>)>>}

EffectLists ==
    {<<>>, MoveEffect,
     <<WithArguments(T("increase"), <<Fuel, Number(5)>>)>>,
     <<And(<<AtTo, WithArguments(T("decrease"),
                      <<TotalCost, WithArguments(T("plus"), <<Fuel, pX, Number(1)>>)>>),
             Not(AtFrom)>>)>>,
     <<WithArguments(T("increase"), <<Fuel, Function(T("cost"), <<pFrom, pTo>>)>>),
       WithArguments(T("decrease"), <<pTo, Fuel>>)>>}

Actions ==
    {Action(name, parameters, preconditions, effects) :
        name \in ActionNames, parameters \in ParameterLists,
        preconditions \in PreconditionLists, effects \in EffectLists}

MoveAction == Action(T("move"), <<pR, pFrom, pTo>>, MovePrecondition, MoveEffect)
RefuelAction ==
    Action(T("refuel"), <<pR>>, <<Not(Not(Px))>>,
           <<WithArguments(T("increase"), <<Fuel, Number(5)>>)>>)

MoveDomain == Domain(T("rover"), <<MoveAction>>)
TwoActionDomain == Domain(T("rover"), <<MoveAction, RefuelAction>>)
TwiceDomain == Domain(T("twice"), <<MoveAction, MoveAction>>)
EmptyDomain == Domain(T("none"), <<>>)

\* an action whose effect assigns, increases and scales
ResetAction ==
    Action(T("reset"), <<pR>>, <<>>,
           <<And(<<WithArguments(T("assign"), <<Fuel, Number(0)>>),
                   WithArguments(T("increase"), <<TotalCost, Number(1)>>)>>),
             WithItems(T("when"), <<Px, WithArguments(T("scale-up"), <<Fuel, Number(2)>>)>>)>>)
ResetDomain == Domain(T("reset"), <<ResetAction>>)

\* a container that exposes children and items
WithChildrenAndItems(type, children, items) ==
    [EmptyNode EXCEPT !.type = type, !.children = children, !.items = items,
                      !.has = {"type", "children", "items"}]

\* an action whose precondition is such a container
GuardedAction ==
    Action(T("guarded"), <<pR, pFrom, pTo>>,
           <<WithChildrenAndItems(T("and"), <<AtFrom>>, <<Not(Connected)>>)>>, MoveEffect)
GuardedDomain == Domain(T("guarded"), <<GuardedAction>>)

\* an action whose bands have two rows each, before the action move
WideAction ==
    Action(T("wide"), <<pR, pFrom, pTo, pX>>,
           <<And(<<AtFrom, Connected, AtTo, Px>>)>>,
           <<And(<<Not(AtFrom), AtTo, Connected, Not(Px),
                   WithArguments(T("increase"), <<Fuel, Function(T("cost"), <<pFrom, pTo>>)>>),
                   WithArguments(T("decrease"),
                       <<TotalCost, WithArguments(T("plus"), <<Fuel, pX, Number(1)>>)>>)>>)>>)
WideDomain == Domain(T("wide"), <<WideAction, MoveAction>>)

Domains ==
    {Domain(T("d"), <<action>>) : action \in Actions}
    \cup {MoveDomain, TwoActionDomain, TwiceDomain, EmptyDomain, ResetDomain, GuardedDomain,
          WideDomain}

oR1 == TypedParameter(T("r1"), T("robot"))
oA == TypedParameter(T("room-a"), T("room"))
oB == TypedParameter(T("room-b"), <<>>)
Letters == <<"c", "d", "e", "f", "g", "h">>
AtA == Predicate(T("at"), <<oR1, oA>>)
AtB == Predicate(T("at"), <<oR1, oB>>)
ConnectedAB == Predicate(T("connected"), <<oA, oB>>)
FuelR1 == Function(T("fuel"), <<oR1>>)

ObjectLists ==
    {<<>>, <<oR1, oA, oB>>,
     <<oR1, oA, oB>> \o [i \in 1..Len(Letters) |-> TypedParameter(<<Letters[i]>>, <<>>)]}

InitLists ==
    {<<>>, <<AtA, ConnectedAB>>,
     <<ConnectedAB, ConnectedAB, ConnectedAB, ConnectedAB, ConnectedAB>>,
     <<WithArguments(<<"=">>, <<FuelR1, Number(10)>>), AtA>>,
     <<Not(AtB), AtA, Not(AtB), AtB>>}

Goals ==
    {<<>>, <<And(<<AtB>>)>>,
     <<And(<<AtB, AtB, WithArguments(<<">", "=">>, <<FuelR1, Function(T("cost"), <<oA>>)>>)>>)>>,
     <<And(<<WithArguments(<<">">>, <<FuelR1, Number(5)>>),
             WithArguments(T("greater"), <<FuelR1, Number(5)>>),
             WithArguments(<<"<">>, <<oA, FuelR1>>), Not(AtA)>>)>>}

\* a problem whose init repeats a comparison with a literal and a comparison
\* of two functions, and whose goal holds both again
FuelIs10 == WithArguments(<<"=">>, <<FuelR1, Number(10)>>)
FuelCovers == WithArguments(<<">", "=">>, <<FuelR1, Function(T("cost"), <<oA>>)>>)
ComparedProblem ==
    Problem(T("p3"), <<oR1, oA>>, <<FuelIs10, FuelIs10, FuelCovers, FuelCovers>>,
            <<And(<<FuelIs10, FuelCovers>>)>>)

\* a problem that declares an object twice
TwinProblem == Problem(T("p4"), <<oR1, oA, oR1>>, <<AtA>>, <<>>)

Problems ==
    {Problem(T("p1"), objects, init, goal) :
        objects \in ObjectLists, init \in InitLists, goal \in Goals}
    \cup {ComparedProblem, TwinProblem}

RepeatedProblem ==
    Problem(T("p1"), <<oR1, oA, oB>>,
            <<ConnectedAB, ConnectedAB, ConnectedAB, ConnectedAB, ConnectedAB>>,
            <<And(<<AtB>>)>>)

DomainRequest(domain) == [kind |-> "domain", content |-> domain]
ProblemRequest(problem) == [kind |-> "problem", content |-> problem]

\* every input, for a process that makes one conversion
Requests ==
    {DomainRequest(domain) : domain \in Domains}
    \cup {ProblemRequest(problem) : problem \in Problems}

\* the inputs of a process that makes several conversions
RepeatedRequests ==
    {DomainRequest(MoveDomain), DomainRequest(TwoActionDomain), DomainRequest(EmptyDomain),
     ProblemRequest(RepeatedProblem),
     ProblemRequest(Problem(T("p2"), <<oR1>>, <<WithArguments(<<"=">>, <<FuelR1, Number(10)>>)>>,
                            <<>>))}

-----------------------------------------------------------------------------
(* The converters as steps of one process.                                  *)

\* convertPddlDomainToGraph(domain)
ConvertDomain ==
    /\ requests # <<>>
    /\ Head(requests).kind = "domain"
    /\ LET domain == Head(requests).content
           thrower == firstThrowing(domainActions(domain)) IN
       IF thrower = 0
       THEN /\ calls' = Append(calls, [kind |-> "domain", input |-> domain,
                                       counter |-> actionGroupCounter,
                                       threw |-> FALSE,
                                       elements |-> createDomainGraph(domain,
                                                        actionGroupCounter)])
            /\ actionGroupCounter' = actionGroupCounter + Len(domainActions(domain))
       ELSE \* actionGroupCounter++ of line 1666 has run for the actions up
            \* to the one that throws; nothing is returned
            /\ calls' = Append(calls, [kind |-> "domain", input |-> domain,
                                       counter |-> actionGroupCounter,
                                       threw |-> TRUE,
                                       elements |-> <<>>])
            /\ actionGroupCounter' = actionGroupCounter + thrower
    /\ requests' = Tail(requests)
    /\ UNCHANGED problemGroupCounter
    /\ UNCHANGED parseVars
    /\ UNCHANGED <<mindVars, dialogVars, uploadVars>>

\* convertPddlProblemToGraph(problem)
ConvertProblem ==
    /\ requests # <<>>
    /\ Head(requests).kind = "problem"
    /\ LET problem == Head(requests).content IN
       calls' = Append(calls, [kind |-> "problem", input |-> problem,
                               counter |-> problemGroupCounter,
                               threw |-> FALSE,
                               elements |-> createProblemGraph(problem, START_X, START_Y,
                                                problemGroupCounter).elements])
    /\ problemGroupCounter' = problemGroupCounter + 1
    /\ requests' = Tail(requests)
    /\ UNCHANGED actionGroupCounter
    /\ UNCHANGED parseVars
    /\ UNCHANGED <<mindVars, dialogVars, uploadVars>>

InitGraph ==
    /\ ParseIdle
    /\ MindIdle
    /\ UiIdle
    /\ actionGroupCounter = 0
    /\ problemGroupCounter = 0
    /\ calls = <<>>
    /\ requests \in {<<request>> : request \in Requests}
                    \cup BoundedSeq(RepeatedRequests, MaxConversions)

NextGraph == ConvertDomain \/ ConvertProblem

SpecGraph == InitGraph /\ [][NextGraph]_vars

-----------------------------------------------------------------------------
(* Properties of the graph layout compiler.                                 *)

\* the group elements of a list, and the labels of the ellipses of a group
GroupElements(elements) ==
    LET IsGroup(e) == e.type = "group" IN SelectSeq(elements, IsGroup)
EllipseLabels(elements, groupId, fill) ==
    LET IsNode(e) == e.groupId = groupId /\ e.shape = "ellipse" /\ e.fill = fill
        nodes == SelectSeq(elements, IsNode)
    IN [i \in 1..Len(nodes) |-> nodes[i].text]

RECURSIVE LeafPaths(_, _)
RECURSIVE LeafPathsEach(_, _)
\* the predicates reached from expr, in the order of the walk, each with the
\* number of `not` nodes on the path from the top-level expression to it
LeafPaths(expr, nots) ==
    IF expr.type = T("predicate") THEN <<[expr |-> expr, nots |-> nots]>>
    ELSE IF expr.type = T("not") THEN LeafPaths(expr.argument[1], nots + 1)
    ELSE IF "children" \in expr.has THEN LeafPathsEach(expr.children, nots)
    ELSE IF "items" \in expr.has THEN LeafPathsEach(expr.items, nots)
    ELSE IF "argument" \in expr.has THEN LeafPaths(expr.argument[1], nots)
    ELSE <<>>
LeafPathsEach(exprs, nots) ==
    IF exprs = <<>> THEN <<>>
    ELSE LeafPaths(Head(exprs), nots) \o LeafPathsEach(Tail(exprs), nots)

\* what the parity of the `not` nodes says extractAllPredicates collects
ByParity(expressions) ==
    LET leaves == LeafPathsEach(expressions, 0)
    IN [i \in 1..Len(leaves) |-> Extracted(leaves[i].expr, leaves[i].nots % 2 = 1)]

\* the labels of a list of extracted predicates, as strings
Labels(extracted) == [i \in 1..Len(extracted) |-> Join(getPredicateLabel(extracted[i]))]

\* C5: extractAllPredicates collects each predicate negated exactly when the
\* number of `not` nodes on the path from the top-level expression to it is
\* odd, so a `not` changes nothing for siblings and later expressions; the
\* nodes of an action show the precondition and effect predicates with the
\* labels of these polarities.
C5_NotParity ==
    \A n \in 1..Len(calls) :
        LET c == calls[n] IN
        IF c.kind = "domain"
        THEN LET groups == GroupElements(c.elements) IN
             /\ Len(groups) = Len(c.input.actions)
             /\ \A k \in 1..Len(c.input.actions) :
                  LET action == c.input.actions[k]
                      shown == EllipseLabels(c.elements, groups[k].id, EFFECT_COLOR)
                      effects == Labels(ByParity(action.effects))
                  IN /\ extractAllPredicates(action.preconditions)
                            = ByParity(action.preconditions)
                     /\ extractAllPredicates(action.effects) = ByParity(action.effects)
                     /\ EllipseLabels(c.elements, groups[k].id, PRECONDITION_COLOR)
                            = Labels(ByParity(action.preconditions))
                     /\ Len(shown) >= Len(effects)
                     /\ SubSeq(shown, 1, Len(effects)) = effects
        ELSE /\ extractAllPredicates(c.input.init) = ByParity(c.input.init)
             /\ extractAllPredicates(c.input.goal) = ByParity(c.input.goal)

\* an action with (not (not (not p))) as precondition and the effect of move
\* was converted: p is shown negated, the first `at` negated, its sibling not
C5_Witness ==
    \E n \in 1..Len(calls) :
        /\ calls[n].kind = "domain"
        /\ Len(calls[n].input.actions) = 1
        /\ calls[n].input.actions[1].preconditions = <<Not(Not(Not(Px)))>>
        /\ calls[n].input.actions[1].effects = MoveEffect
        /\ EllipseLabels(calls[n].elements, calls[n].elements[1].id, PRECONDITION_COLOR)
               = <<"not p">>
        /\ EllipseLabels(calls[n].elements, calls[n].elements[1].id, EFFECT_COLOR)
               = <<"not at", "at">>

\* C6: in the list a conversion returns, the source and the target of every
\* arrow line are ids of geometry elements of the same list.
C6_NoDanglingEdges ==
    \A n \in 1..Len(calls) :
        LET elements == calls[n].elements
            IsNode(id) == \E i \in 1..Len(elements) :
                              elements[i].type = "geometry" /\ elements[i].id = id
        IN \A i \in 1..Len(elements) :
               elements[i].type = "arrow-line"
                   => IsNode(elements[i].sourceId) /\ IsNode(elements[i].targetId)

\* a domain and a problem have been converted whose lists hold arrow lines
C6_Witness ==
    /\ \E n \in 1..Len(calls) : \E i \in 1..Len(calls[n].elements) :
           calls[n].kind = "domain" /\ calls[n].elements[i].type = "arrow-line"
    /\ \E n \in 1..Len(calls) : \E i \in 1..Len(calls[n].elements) :
           calls[n].kind = "problem" /\ calls[n].elements[i].type = "arrow-line"

\* the predicate ellipses of a category of a problem list, by label
PredicateEllipses(elements, fill, label) ==
    {i \in 1..Len(elements) :
        elements[i].shape = "ellipse" /\ elements[i].fill = fill /\ elements[i].text = label}

\* the labels of the predicates of a category
CategoryLabels(expressions) ==
    LET shown == Labels(extractAllPredicates(expressions))
    IN {shown[i] : i \in 1..Len(shown)}

\* C7: for init and for goal, the list of a problem holds exactly one
\* predicate ellipse for each label that occurs in the category, however
\* often it occurs, and no other predicate ellipse.
C7_ProblemDedup ==
    \A n \in 1..Len(calls) :
        calls[n].kind = "problem" =>
            LET elements == calls[n].elements
                OnePerLabel(expressions, fill) ==
                    /\ \A label \in CategoryLabels(expressions) :
                           Cardinality(PredicateEllipses(elements, fill, label)) = 1
                    /\ \A i \in 1..Len(elements) :
                           elements[i].shape = "ellipse" /\ elements[i].fill = fill
                               => elements[i].text \in CategoryLabels(expressions)
            IN /\ OnePerLabel(calls[n].input.init, PRECONDITION_COLOR)
               /\ OnePerLabel(calls[n].input.goal, EFFECT_COLOR)

\* a problem whose init holds the same fact five times was converted and its
\* list holds one ellipse for the fact
C7_Witness ==
    \E n \in 1..Len(calls) :
        /\ calls[n].kind = "problem"
        /\ calls[n].input.init
               = <<ConnectedAB, ConnectedAB, ConnectedAB, ConnectedAB, ConnectedAB>>
        /\ Cardinality(PredicateEllipses(calls[n].elements, PRECONDITION_COLOR,
                                         "connected")) = 1

\* what the claim of determinism compares: everything but the ids
Drawn(e) ==
    [type |-> e.type, shape |-> e.shape, x |-> e.x, y |-> e.y, width |-> e.width,
     height |-> e.height, text |-> e.text, fill |-> e.fill, strokeColor |-> e.strokeColor,
     ends |-> e.ends, role |-> e.role, dataType |-> e.dataType,
     description |-> e.description]

\* the elements whose ids carry a counter: groups and description nodes
CarriesCounter(e) == e.type = "group" \/ e.role # ""

\* C8: two conversions of the same domain, or of the same problem, return
\* lists of the same length that agree, element by element, in kind, shape,
\* label, colours and geometry; the counters show only in the ids of the
\* groups and of the description nodes (and in the references to them).
C8_LayoutDeterminism ==
    \A m, n \in 1..Len(calls) :
        (m < n /\ calls[m].kind = calls[n].kind /\ calls[m].input = calls[n].input) =>
            LET first == calls[m].elements
                second == calls[n].elements
            IN /\ Len(first) = Len(second)
               /\ \A i \in 1..Len(first) :
                      /\ Drawn(first[i]) = Drawn(second[i])
                      /\ CarriesCounter(first[i]) = CarriesCounter(second[i])
                      /\ ~CarriesCounter(first[i]) =>
                             /\ first[i].id = second[i].id
                             /\ first[i].sourceId = second[i].sourceId
                             /\ first[i].targetId = second[i].targetId

\* the same domain has been converted twice, with different counter values
C8_Witness ==
    \E m, n \in 1..Len(calls) :
        /\ m < n
        /\ calls[m].kind = "domain"
        /\ calls[n].kind = "domain"
        /\ calls[m].input = calls[n].input
        /\ calls[m].counter # calls[n].counter
        /\ Len(calls[n].elements) > 1

\* the ids of the elements of a list
Ids(elements) == {elements[i].id : i \in 1..Len(elements)}

\* C9: no element id of a conversion is an element id of an earlier
\* conversion of the same process.
C9_IdsUniqueAcrossCalls ==
    \A m, n \in 1..Len(calls) :
        m < n => Ids(calls[m].elements) \cap Ids(calls[n].elements) = {}

\* the part of a list from a group element to just before the next
\* group element, for the group element at position p
Section(elements, p) ==
    LET later == {q \in (p + 1)..Len(elements) : elements[q].type = "group"}
        stop == IF later = {} THEN Len(elements) + 1
                ELSE CHOOSE q \in later : \A r \in later : q <= r
    IN SubSeq(elements, p, stop - 1)

\* a list that is one group element followed by its members: the group
\* element lists the ids of the others in order, and each of them carries
\* the id of the group
Wrapped(section) ==
    /\ Len(section) >= 1
    /\ section[1].type = "group"
    /\ section[1].elementIds = [i \in 1..(Len(section) - 1) |-> section[i + 1].id]
    /\ \A i \in 2..Len(section) :
           section[i].type # "group" /\ section[i].groupId = section[1].id

\* C10: the list of a problem is its one group element followed by the
\* elements of the group; the list of a domain is, for each action in
\* order, the group element of the action followed by its members.
C10_GroupWrapper ==
    \A n \in 1..Len(calls) :
        LET elements == calls[n].elements
            groups == {p \in 1..Len(elements) : elements[p].type = "group"}
        IN /\ Cardinality(groups) = IF calls[n].kind = "problem" THEN 1
                                    ELSE Len(calls[n].input.actions)
           /\ elements # <<>> => 1 \in groups
           /\ \A p \in groups : Wrapped(Section(elements, p))
           /\ \A p, q \in groups : p # q => elements[p].id # elements[q].id

\* a domain with two actions has been converted: two groups, each with
\* members, and a problem has been converted too
C10_Witness ==
    /\ \E n \in 1..Len(calls) :
           /\ calls[n].kind = "domain"
           /\ Len(calls[n].input.actions) = 2
           /\ Len(GroupElements(calls[n].elements)) = 2
           /\ Len(calls[n].elements[1].elementIds) > 2
    /\ \E n \in 1..Len(calls) :
           /\ calls[n].kind = "problem"
           /\ Len(calls[n].elements[1].elementIds) > 2

-----------------------------------------------------------------------------
(* pddl-to-drawnix.ts: classifyDefinition.                                  *)

LowerLetters == <<"a", "b", "c", "d", "e", "f", "g", "h", "i", "j", "k", "l", "m",
                  "n", "o", "p", "q", "r", "s", "t", "u", "v", "w", "x", "y", "z">>
UpperLetters == <<"A", "B", "C", "D", "E", "F", "G", "H", "I", "J", "K", "L", "M",
                  "N", "O", "P", "Q", "R", "S", "T", "U", "V", "W", "X", "Y", "Z">>

\* the index of a character in a tuple of letters, 0 when it is not there
LetterIndex(letters, c) ==
    IF \E i \in 1..Len(letters) : letters[i] = c
    THEN CHOOSE i \in 1..Len(letters) : letters[i] = c
    ELSE 0

\* String.prototype.toLowerCase, character by character
toLowerCase(text) ==
    [i \in 1..Len(text) |->
        IF LetterIndex(UpperLetters, text[i]) # 0
        THEN LowerLetters[LetterIndex(UpperLetters, text[i])]
        ELSE text[i]]

\* String.prototype.toUpperCase, character by character
toUpperCase(text) ==
    [i \in 1..Len(text) |->
        IF LetterIndex(LowerLetters, text[i]) # 0
        THEN UpperLetters[LetterIndex(LowerLetters, text[i])]
        ELSE text[i]]

\* String.prototype.startsWith for a one-character prefix
startsWith(text, c) == text # <<>> /\ text[1] = c

isAtom(item) == item.isAtom
isList(item) == ~item.isAtom

\* the content of a list item: the array it refers to
ListOf(hp, item) == hp[item.ref]

DefineAtom == <<"d", "e", "f", "i", "n", "e">>
DomainAtom == <<"d", "o", "m", "a", "i", "n">>
ProblemAtom == <<"p", "r", "o", "b", "l", "e", "m">>

\* a Definition; name and headerIndex are <<>> when undefined / null
Definition(kind, name, segments, headerIndex) ==
    [kind |-> kind, name |-> name, segments |-> segments, headerIndex |-> headerIndex]

\* the name the header gives: maybeName when it is an atom
headerName(header, name) ==
    IF Len(header) >= 2 /\ isAtom(header[2]) THEN <<header[2].atom>> ELSE name

\* a mutant of classifySegment: a later header replaces the first one
classifySegmentLast(hp, d, segment, index) ==
    IF ~isList(segment) \/ ListOf(hp, segment) = <<>> THEN d
    ELSE LET segmentHead == ListOf(hp, segment)[1] IN
         IF ~isAtom(segmentHead) \/ startsWith(segmentHead.atom, ":") THEN d
         ELSE LET normalizedHead == toLowerCase(segmentHead.atom) IN
              IF normalizedHead = DomainAtom
              THEN Definition("domain", headerName(ListOf(hp, segment), d.name),
                              d.segments, <<index>>)
              ELSE IF normalizedHead = ProblemAtom
              THEN Definition("problem", headerName(ListOf(hp, segment), d.name),
                              d.segments, <<index>>)
              ELSE d

\* the body of segments.forEach in classifyDefinition; index counts from 0
classifySegment(hp, d, segment, index) ==
    IF d.headerIndex # <<>> \/ ~isList(segment) \/ ListOf(hp, segment) = <<>> THEN d
    ELSE LET segmentHead == ListOf(hp, segment)[1] IN
         IF ~isAtom(segmentHead) \/ startsWith(segmentHead.atom, ":") THEN d
         ELSE LET normalizedHead == toLowerCase(segmentHead.atom) IN
              IF normalizedHead = DomainAtom
              THEN Definition("domain", headerName(ListOf(hp, segment), d.name),
                              d.segments, <<index>>)
              ELSE IF normalizedHead = ProblemAtom
              THEN Definition("problem", headerName(ListOf(hp, segment), d.name),
                              d.segments, <<index>>)
              ELSE d

RECURSIVE classifySegments(_, _, _)
\* segments.forEach from index i (counted from 1 here)
classifySegments(hp, d, i) ==
    IF i > Len(d.segments) THEN d
    ELSE classifySegments(hp, classifySegment(hp, d, d.segments[i], i - 1), i + 1)

\* a mutant of classifyDefinition: the head is compared with its case kept
classifyDefinitionExact(hp, expr) ==
    IF expr = <<>> THEN <<>>
    ELSE IF ~isAtom(expr[1]) \/ expr[1].atom # DefineAtom THEN <<>>
    ELSE <<classifySegments(hp, Definition("unknown", <<>>, Tail(expr), <<>>), 1)>>

\* classifyDefinition(expr); <<>> stands for null
classifyDefinition(hp, expr) ==
    IF expr = <<>> THEN <<>>
    ELSE IF ~isAtom(expr[1]) \/ toLowerCase(expr[1].atom) # DefineAtom THEN <<>>
    ELSE <<classifySegments(hp, Definition("unknown", <<>>, Tail(expr), <<>>), 1)>>

-----------------------------------------------------------------------------
(* pddl-to-drawnix.ts: the sections of the mind map.  The text of a node is *)
(* kept as a TLA+ string; a section is built whole and then added to its    *)
(* parent, in the order addChild is called.                                 *)

\* addChild(parent, text), for a child built with its own children
addNode(parent, child) == [parent EXCEPT !.children = Append(@, child)]

\* addChild(parent, text)
addChild(parent, text) == addNode(parent, MindElement(Join(text), <<>>))

RECURSIVE splitChunks(_, _, _)
\* text.split(/[-_]/) from character i, current holding the chunk so far
splitChunks(text, i, current) ==
    IF i > Len(text) THEN <<current>>
    ELSE IF text[i] \in {"-", "_"}
    THEN <<current>> \o splitChunks(text, i + 1, <<>>)
    ELSE splitChunks(text, i + 1, Append(current, text[i]))

\* chunk.charAt(0).toUpperCase() + chunk.slice(1)
capitalize(chunk) == toUpperCase(<<chunk[1]>>) \o Tail(chunk)

\* toTitleCase
toTitleCase(text) ==
    LET stripped == IF startsWith(text, ":") THEN Tail(text) ELSE text
        NotEmpty(chunk) == chunk # <<>>
        chunks == SelectSeq(splitChunks(stripped, 1, <<>>), NotEmpty)
    IN JoinTexts([i \in 1..Len(chunks) |-> capitalize(chunks[i])], <<" ">>)

\* the children of a requirement-like or a predicate section
renderedEntries(hp, entries) ==
    IF entries = <<>> THEN <<MindElement("(empty)", <<>>)>>
    ELSE LET NotEmpty(rendered) == rendered # <<>>
             shown == SelectSeq([i \in 1..Len(entries) |-> formatSExpr(hp, entries[i])],
                                NotEmpty)
         IN [i \in 1..Len(shown) |-> MindElement(Join(shown[i]), <<>>)]

appendRequirementLikeSection(hp, parent, title, entries) ==
    addNode(parent, MindElement(Join(title), renderedEntries(hp, entries)))

appendPredicateSection(hp, parent, title, entries) ==
    addNode(parent, MindElement(Join(title), renderedEntries(hp, entries)))

\* flushBuffer: a child for the buffer joined by spaces, when it is not empty
flushBuffer(b) ==
    IF b.buffer # <<>>
    THEN [children |-> Append(b.children, MindElement(Join(JoinTexts(b.buffer, <<" ">>)), <<>>)),
          buffer |-> <<>>]
    ELSE b

\* the body of entries.forEach in appendTypedBlockSection
typedBlockEntry(b, rendered) ==
    IF rendered = <<"-">> THEN [b EXCEPT !.buffer = Append(@, rendered)]
    ELSE IF startsWith(rendered, "-") /\ b.buffer # <<>>
            /\ b.buffer[Len(b.buffer)] = <<"-">>
    THEN flushBuffer([b EXCEPT !.buffer = Append(@, Tail(rendered))])
    ELSE IF startsWith(rendered, "-")
    THEN flushBuffer([flushBuffer(b) EXCEPT !.buffer = Append(@, Tail(rendered))])
    ELSE [b EXCEPT !.buffer = Append(@, rendered)]

RECURSIVE typedBlockEntries(_, _, _, _)
typedBlockEntries(hp, b, entries, i) ==
    IF i > Len(entries) THEN b
    ELSE typedBlockEntries(hp, typedBlockEntry(b, formatSExpr(hp, entries[i])),
                           entries, i + 1)

appendTypedBlockSection(hp, parent, title, entries) ==
    addNode(parent,
        MindElement(Join(title),
            IF entries = <<>> THEN <<MindElement("(empty)", <<>>)>>
            ELSE flushBuffer(typedBlockEntries(hp, [children |-> <<>>, buffer |-> <<>>],
                                               entries, 1)).children))

DurativeActionAtom ==
    <<":", "d", "u", "r", "a", "t", "i", "v", "e", "-", "a", "c", "t", "i", "o", "n">>

RECURSIVE actionChildren(_, _, _)
\* the for loop of appendActionSection from index (counted from 0)
actionChildren(hp, actionExpr, index) ==
    IF index >= Len(actionExpr) THEN <<>>
    ELSE LET key == actionExpr[index + 1] IN
         IF ~isAtom(key)
         THEN <<MindElement(Join(formatSExpr(hp, key)), <<>>)>>
              \o actionChildren(hp, actionExpr, index + 1)
         ELSE IF ~startsWith(key.atom, ":")
         THEN <<MindElement(Join(key.atom), <<>>)>>
              \o actionChildren(hp, actionExpr, index + 1)
         ELSE IF index + 1 >= Len(actionExpr)
         THEN <<MindElement(Join(toTitleCase(key.atom) \o <<":", " ", "(empty)">>), <<>>)>>
              \o actionChildren(hp, actionExpr, index + 1)
         ELSE <<MindElement(Join(toTitleCase(key.atom) \o <<":", " ">>
                                 \o formatSExpr(hp, actionExpr[index + 2])), <<>>)>>
              \o actionChildren(hp, actionExpr, index + 2)

appendActionSection(hp, parent, actionExpr) ==
    IF actionExpr = <<>> THEN parent
    ELSE IF ~isAtom(actionExpr[1]) THEN parent
    ELSE LET actionHead == actionExpr[1].atom
             actionName == IF Len(actionExpr) >= 2 /\ isAtom(actionExpr[2])
                           THEN actionExpr[2].atom ELSE <<"Unnamed Action">>
             title == IF actionHead = DurativeActionAtom THEN <<"Durative action">>
                      ELSE toTitleCase(actionHead)
         IN addNode(parent,
                MindElement(Join(title \o <<":", " ">> \o actionName),
                            actionChildren(hp, actionExpr, 2)))

appendGenericSection(hp, parent, expr) ==
    IF expr = <<>> THEN parent
    ELSE LET rest == Tail(expr)
             title == IF isAtom(expr[1]) THEN toTitleCase(expr[1].atom) ELSE <<"Section">>
         IN addNode(parent,
                MindElement(Join(title),
                    IF rest = <<>> THEN <<MindElement("(empty)", <<>>)>>
                    ELSE [i \in 1..Len(rest) |->
                             MindElement(Join(formatSExpr(hp, rest[i])), <<>>)]))

-----------------------------------------------------------------------------
(* pddl-to-drawnix.ts: the definitions of a text and the mind map made of   *)
(* them.                                                                    *)

RequirementsKey == <<":", "r", "e", "q", "u", "i", "r", "e", "m", "e", "n", "t", "s">>
TypesKey == <<":", "t", "y", "p", "e", "s">>
ConstantsKey == <<":", "c", "o", "n", "s", "t", "a", "n", "t", "s">>
PredicatesKey == <<":", "p", "r", "e", "d", "i", "c", "a", "t", "e", "s">>
FunctionsKey == <<":", "f", "u", "n", "c", "t", "i", "o", "n", "s">>
ActionKey == <<":", "a", "c", "t", "i", "o", "n">>
DomainKey == <<":", "d", "o", "m", "a", "i", "n">>
ObjectsKey == <<":", "o", "b", "j", "e", "c", "t", "s">>
InitKey == <<":", "i", "n", "i", "t">>
GoalKey == <<":", "g", "o", "a", "l">>

\* the body of segments.forEach in appendDomainDefinition; index from 0
appendDomainSegment(hp, node, d, segment, index) ==
    IF <<index>> = d.headerIndex \/ ~isList(segment) \/ ListOf(hp, segment) = <<>>
    THEN node
    ELSE IF ~isAtom(ListOf(hp, segment)[1])
    THEN appendGenericSection(hp, node, ListOf(hp, segment))
    ELSE LET head == ListOf(hp, segment)[1].atom
             key == toLowerCase(head) IN
         IF key = RequirementsKey
         THEN appendRequirementLikeSection(hp, node, <<"Requirements">>,
                                           Tail(ListOf(hp, segment)))
         ELSE IF key \in {TypesKey, ConstantsKey}
         THEN appendTypedBlockSection(hp, node, toTitleCase(head),
                                      Tail(ListOf(hp, segment)))
         ELSE IF key \in {PredicatesKey, FunctionsKey}
         THEN appendPredicateSection(hp, node, toTitleCase(head),
                                     Tail(ListOf(hp, segment)))
         ELSE IF key \in {ActionKey, DurativeActionAtom}
         THEN appendActionSection(hp, node, ListOf(hp, segment))
         ELSE appendGenericSection(hp, node, ListOf(hp, segment))

RECURSIVE appendDomainDefinitionFrom(_, _, _, _)
appendDomainDefinitionFrom(hp, node, d, i) ==
    IF i > Len(d.segments) THEN node
    ELSE appendDomainDefinitionFrom(hp,
             appendDomainSegment(hp, node, d, d.segments[i], i - 1), d, i + 1)

appendDomainDefinition(hp, node, d) == appendDomainDefinitionFrom(hp, node, d, 1)

\* the body of segments.forEach in appendProblemDefinition; index from 0
appendProblemSegment(hp, node, d, segment, index) ==
    IF <<index>> = d.headerIndex \/ ~isList(segment) \/ ListOf(hp, segment) = <<>>
    THEN node
    ELSE IF ~isAtom(ListOf(hp, segment)[1])
    THEN appendGenericSection(hp, node, ListOf(hp, segment))
    ELSE LET head == ListOf(hp, segment)[1].atom
             key == toLowerCase(head) IN
         IF key = DomainKey
         THEN appendRequirementLikeSection(hp, node, <<"Domain">>,
                                           Tail(ListOf(hp, segment)))
         ELSE IF key \in {ObjectsKey, InitKey, GoalKey}
         THEN appendPredicateSection(hp, node, toTitleCase(head),
                                     Tail(ListOf(hp, segment)))
         ELSE appendGenericSection(hp, node, ListOf(hp, segment))

RECURSIVE appendProblemDefinitionFrom(_, _, _, _)
appendProblemDefinitionFrom(hp, node, d, i) ==
    IF i > Len(d.segments) THEN node
    ELSE appendProblemDefinitionFrom(hp,
             appendProblemSegment(hp, node, d, d.segments[i], i - 1), d, i + 1)

appendProblemDefinition(hp, node, d) == appendProblemDefinitionFrom(hp, node, d, 1)

\* createRootMind(label)
createRootMind(label) == MindElement(Join(label), <<>>)

RECURSIVE classifyAll(_, _)
\* expressions.map(classifyDefinition).filter(Boolean)
classifyAll(hp, expressions) ==
    IF expressions = <<>> THEN <<>>
    ELSE classifyDefinition(hp, ListOf(hp, expressions[1]))
         \o classifyAll(hp, Tail(expressions))

\* definitions.find((definition) => definition.kind === kind): its index,
\* 0 when there is none
findKind(defs, kind) ==
    IF \E i \in 1..Len(defs) : defs[i].kind = kind
    THEN CHOOSE i \in 1..Len(defs) :
             /\ defs[i].kind = kind
             /\ \A j \in 1..(i - 1) : defs[j].kind # kind
    ELSE 0

\* lines 352-355
rootLabel(defs) ==
    LET domainDefinition == findKind(defs, "domain")
        problemDefinition == findKind(defs, "problem") IN
    IF domainDefinition # 0 /\ defs[domainDefinition].name # <<>>
    THEN <<"Domain: ">> \o defs[domainDefinition].name[1]
    ELSE IF problemDefinition # 0 /\ defs[problemDefinition].name # <<>>
    THEN <<"Problem: ">> \o defs[problemDefinition].name[1]
    ELSE <<"PDDL Diagram">>

\* the fallback name of a definition of unknown kind
DefinitionAtom == <<"D", "e", "f", "i", "n", "i", "t", "i", "o", "n">>

\* definition.name ?? fallback
nameOr(d, fallback) == IF d.name # <<>> THEN d.name[1] ELSE fallback

\* a mutant of isPrimaryProblem: the first problem is primary even when the
\* text holds a domain
isPrimaryProblemAlways(defs, index) == index = findKind(defs, "problem")

\* line 365: definition === problemDefinition && !domainDefinition
isPrimaryProblem(defs, index) ==
    index = findKind(defs, "problem") /\ findKind(defs, "domain") = 0

\* the body of definitions.forEach, lines 359-373
renderDefinition(hp, rootNode, defs, index) ==
    LET d == defs[index] IN
    IF d.kind = "domain"
    THEN IF index = findKind(defs, "domain")
         THEN appendDomainDefinition(hp, rootNode, d)
         ELSE addNode(rootNode,
                  appendDomainDefinition(hp,
                      MindElement(Join(<<"Domain: ">> \o nameOr(d, <<"Unnamed Domain">>)),
                                  <<>>), d))
    ELSE IF d.kind = "problem"
    THEN IF isPrimaryProblem(defs, index)
         THEN appendProblemDefinition(hp, rootNode, d)
         ELSE addNode(rootNode,
                  appendProblemDefinition(hp,
                      MindElement(Join(<<"Problem: ">> \o nameOr(d, <<"Unnamed Problem">>)),
                                  <<>>), d))
    ELSE appendGenericSection(hp, rootNode,
             <<AtomItem(nameOr(d, DefinitionAtom))>> \o d.segments)

RECURSIVE renderDefinitions(_, _, _, _)
renderDefinitions(hp, rootNode, defs, i) ==
    IF i > Len(defs) THEN rootNode
    ELSE renderDefinitions(hp, renderDefinition(hp, rootNode, defs, i), defs, i + 1)

\* lines 340-347: the top-level lists are classified, and the call throws
\* when none of them is a definition
Classify ==
    /\ pc = "built"
    /\ definitions' = classifyAll(heap, SelectSeq(ParseResult, isList))
    /\ IF definitions' = <<>>
       THEN /\ error' = "noDefinitions"
            /\ pc' = "failed"
       ELSE /\ error' = ""
            /\ pc' = "classified"
    /\ UNCHANGED <<definition, cleanedDefinition, tokens, pos, stack, heap,
                   formatted, retokens, root>>
    /\ UNCHANGED graphVars
    /\ UNCHANGED <<dialogVars, uploadVars>>

\* lines 349-375: the root is labelled, every definition is appended to it,
\* and the root is returned
Render ==
    /\ pc = "classified"
    /\ root' = renderDefinitions(heap, createRootMind(rootLabel(definitions)),
                                 definitions, 1)
    /\ pc' = "returned"
    /\ UNCHANGED <<definition, cleanedDefinition, tokens, pos, stack, heap,
                   error, formatted, retokens, definitions>>
    /\ UNCHANGED graphVars
    /\ UNCHANGED <<dialogVars, uploadVars>>

-----------------------------------------------------------------------------
(* Inputs of parsePddlToMind from line 340 on: the tokens of texts made of  *)
(* a few top-level items.                                                   *)

\* the largest number of top-level items of a text
MaxItems == 3

\* the tokens of a
ItemAtom ==
    <<<<"a">>>>

\* the tokens of (a)
ItemList ==
    <<<<"(">>, <<"a">>, <<")">>>>

\* the tokens of (define)
ItemDefine ==
    <<<<"(">>, <<"d", "e", "f", "i", "n", "e">>, <<")">>>>

\* the tokens of (define (:x) (foo))
ItemUnknown ==
    <<<<"(">>, <<"d", "e", "f", "i", "n", "e">>, <<"(">>, <<":", "x">>,
      <<")">>, <<"(">>, <<"f", "o", "o">>, <<")">>, <<")">>>>

\* the tokens of (Define (domain d1) (:types a - b))
ItemDomain1 ==
    <<<<"(">>, <<"D", "e", "f", "i", "n", "e">>, <<"(">>,
      <<"d", "o", "m", "a", "i", "n">>, <<"d", "1">>, <<")">>, <<"(">>,
      <<":", "t", "y", "p", "e", "s">>, <<"a">>, <<"-">>, <<"b">>, <<")">>,
      <<")">>>>

\* the tokens of (define (domain d2) (:requirements))
ItemDomain2 ==
    <<<<"(">>, <<"d", "e", "f", "i", "n", "e">>, <<"(">>,
      <<"d", "o", "m", "a", "i", "n">>, <<"d", "2">>, <<")">>, <<"(">>,
      <<":", "r", "e", "q", "u", "i", "r", "e", "m", "e", "n", "t", "s">>,
      <<")">>, <<")">>>>

\* the tokens of (define (problem p1) (:init))
ItemProblem1 ==
    <<<<"(">>, <<"d", "e", "f", "i", "n", "e">>, <<"(">>,
      <<"p", "r", "o", "b", "l", "e", "m">>, <<"p", "1">>, <<")">>, <<"(">>,
      <<":", "i", "n", "i", "t">>, <<")">>, <<")">>>>

\* the tokens of (DEFINE (Problem) (:goal (a)))
ItemProblem2 ==
    <<<<"(">>, <<"D", "E", "F", "I", "N", "E">>, <<"(">>,
      <<"P", "r", "o", "b", "l", "e", "m">>, <<")">>, <<"(">>,
      <<":", "g", "o", "a", "l">>, <<"(">>, <<"a">>, <<")">>, <<")">>,
      <<")">>>>

\* the top-level items of the input texts
MindItems ==
    <<ItemAtom, ItemList, ItemDefine, ItemUnknown,
      ItemDomain1, ItemDomain2, ItemProblem1, ItemProblem2>>

RECURSIVE tokensOf(_)
\* the tokens of the items of the given indices, one after the other
tokensOf(indices) ==
    IF indices = <<>> THEN <<>>
    ELSE MindItems[indices[1]] \o tokensOf(Tail(indices))

MindTokens ==
    {tokensOf(indices) : indices \in BoundedSeq(1..Len(MindItems), MaxItems)} \ {<<>>}

\* parsePddlToMind has tokenized a text of top-level items
InitMind ==
    /\ definition = <<>>
    /\ cleanedDefinition = <<>>
    /\ tokens \in MindTokens
    /\ pos = 0
    /\ stack = InitialStack
    /\ heap = InitialHeap
    /\ pc = "parse"
    /\ error = ""
    /\ formatted = <<>>
    /\ retokens = <<>>
    /\ GraphIdle
    /\ MindIdle
    /\ UiIdle

NextMind == ParseToken \/ ParseEnd \/ Classify \/ Render

SpecMind == InitMind /\ [][NextMind]_vars

-----------------------------------------------------------------------------
(* Properties of parsePddlToMind.                                           *)

\* a top-level item that is a define form: a list whose head is the atom
\* define, in any case
IsDefineForm(hp, item) ==
    /\ ~item.isAtom
    /\ hp[item.ref] # <<>>
    /\ hp[item.ref][1].isAtom
    /\ toLowerCase(hp[item.ref][1].atom) = DefineAtom

\* a segment that is a domain or problem header
IsHeader(hp, segment) ==
    /\ ~segment.isAtom
    /\ hp[segment.ref] # <<>>
    /\ hp[segment.ref][1].isAtom
    /\ toLowerCase(hp[segment.ref][1].atom) \in {DomainAtom, ProblemAtom}

\* the define forms among the top-level items, in order
DefineForms == SelectSeq(ParseResult, LAMBDA item : IsDefineForm(heap, item))

\* the define forms that have no domain or problem header
HeaderlessForms ==
    SelectSeq(DefineForms,
              LAMBDA item : \A k \in 2..Len(heap[item.ref]) :
                                ~IsHeader(heap, heap[item.ref][k]))

\* the children of the root that are generic sections titled Definition
DefinitionSections == SelectSeq(root.children, LAMBDA child : child.text = "Definition")

\* the call has gone past the check of line 345
Classified == pc \in {"classified", "returned"} \/ error = "noDefinitions"

\* C11: parsePddlToMind fails with "no definitions detected" exactly when
\* the S-expression was built and no top-level list is a define form; bare
\* atoms and other lists are ignored, and a define form without a header is
\* kept as an unknown definition and rendered as a generic section.
C11_NoDefinitionsExactly ==
    /\ error = "noDefinitions" =>
           /\ pc = "failed"
           /\ pos = Len(tokens)
           /\ parseEndCheck(stack) = ""
    /\ Classified =>
           /\ error = "noDefinitions" <=> DefineForms = <<>>
           /\ Len(definitions) = Len(DefineForms)
           /\ \A i \in 1..Len(definitions) :
                  /\ definitions[i].segments = Tail(heap[DefineForms[i].ref])
                  /\ definitions[i].kind = "unknown"
                         <=> \E j \in 1..Len(HeaderlessForms) :
                                 HeaderlessForms[j] = DefineForms[i]
    /\ pc = "returned" =>
           /\ Len(DefinitionSections) >= Len(HeaderlessForms)
           /\ \A j \in 1..Len(HeaderlessForms) :
                  \E k \in 1..Len(root.children) :
                      /\ root.children[k].text = "Definition"
                      /\ Len(root.children[k].children)
                             = Max(1, Len(heap[HeaderlessForms[j].ref]) - 1)

\* a text with bare atoms and other lists around a headerless define form
\* has been rendered
C11_Witness ==
    /\ pc = "returned"
    /\ Len(HeaderlessForms) >= 1
    /\ Len(ParseResult) > Len(DefineForms)
    /\ \E i \in 1..Len(ParseResult) : ParseResult[i].isAtom

\* a text without any define form has been refused
C11_WitnessRefused ==
    /\ error = "noDefinitions"
    /\ Len(ParseResult) >= 2

\* the sections a definition contributes, as children of a fresh node
SectionsOf(d) ==
    IF d.kind = "domain" THEN appendDomainDefinition(heap, NoMind, d).children
    ELSE IF d.kind = "problem" THEN appendProblemDefinition(heap, NoMind, d).children
    ELSE appendGenericSection(heap, NoMind,
                              <<AtomItem(DefinitionAtom)>> \o d.segments).children

\* the label of the child section of a definition that is not primary
SectionLabel(d) ==
    IF d.kind = "domain"
    THEN Join(<<"Domain: ">> \o (IF d.name = <<>> THEN <<"Unnamed Domain">> ELSE d.name[1]))
    ELSE Join(<<"Problem: ">> \o (IF d.name = <<>> THEN <<"Unnamed Problem">> ELSE d.name[1]))

\* the first definition of each kind
FirstOfKind ==
    {i \in 1..Len(definitions) :
        /\ definitions[i].kind \in {"domain", "problem"}
        /\ \A j \in 1..(i - 1) : definitions[j].kind # definitions[i].kind}

\* the first domain, and the first problem of a text that holds no domain
FirstOfKindUnlessDomain ==
    {i \in FirstOfKind :
        definitions[i].kind = "problem"
            => \A j \in 1..Len(definitions) : definitions[j].kind # "domain"}

RECURSIVE PlacedChildren(_, _)
\* the children of the root when the definitions of the set primary are
\* rendered at the root and the others as labelled child sections, from
\* definition i on
PlacedChildren(primary, i) ==
    IF i > Len(definitions) THEN <<>>
    ELSE (IF i \in primary \/ definitions[i].kind = "unknown"
          THEN SectionsOf(definitions[i])
          ELSE <<MindElement(SectionLabel(definitions[i]), SectionsOf(definitions[i]))>>)
         \o PlacedChildren(primary, i + 1)

\* C16 as stated: for each kind, the first definition is rendered directly
\* at the root and every later one is a labelled child section, for the
\* first problem whether or not the text also holds a domain.
C16_FirstOfKindPrimary ==
    pc = "returned" => root.children = PlacedChildren(FirstOfKind, 1)

\* C16, amended: the first domain is rendered directly at the root and every
\* later domain is a labelled child section; the first problem is rendered at
\* the root only when the text holds no domain, and every other problem,
\* the first one of a text that holds a domain included, is a labelled child
\* section.
C16_PrimaryUnlessDomain ==
    pc = "returned" => root.children = PlacedChildren(FirstOfKindUnlessDomain, 1)

\* a text with a domain and two problems has been rendered
C16_Witness ==
    /\ pc = "returned"
    /\ \E i, j, k \in 1..Len(definitions) :
           /\ j < k
           /\ definitions[i].kind = "domain"
           /\ definitions[j].kind = "problem"
           /\ definitions[k].kind = "problem"
           /\ SectionsOf(definitions[j]) # <<>>

-----------------------------------------------------------------------------
(* Properties of tokenize.                                                  *)

Parens == {"(", ")"}

\* a character of an atom: neither whitespace nor a parenthesis
IsAtomChar(c) == c \notin Whitespace /\ c \notin Parens

\* the positions of the text where a token starts: every parenthesis, and
\* the first character of every maximal run of atom characters
TokenStarts(text) ==
    {i \in 1..Len(text) :
        \/ text[i] \in Parens
        \/ /\ IsAtomChar(text[i])
           /\ (i = 1 \/ ~IsAtomChar(text[i - 1]))}

\* the k-th smallest element of a set of positions
NthPosition(positions, k) ==
    CHOOSE p \in positions : Cardinality({q \in positions : q < p}) = k - 1

\* the last position of the maximal run of atom characters that starts at p
RunEnd(text, p) ==
    CHOOSE q \in p..Len(text) :
        /\ \A r \in p..q : IsAtomChar(text[r])
        /\ (q = Len(text) \/ ~IsAtomChar(text[q + 1]))

\* the token that starts at position p
TokenAt(text, p) ==
    IF text[p] \in Parens THEN <<text[p]>> ELSE SubSeq(text, p, RunEnd(text, p))

\* tokenize has returned
Tokenized == pc \in {"parse", "built"} \/ error \in {"tokenizeEmpty", "unexpectedClose", "unbalanced"}

\* C14: tokenize emits each parenthesis as a token of its own and each
\* maximal run of characters that are neither whitespace nor parentheses as
\* one atom token, in the order of the text; whitespace yields no token; no
\* token is empty or holds whitespace, and no atom token holds a parenthesis.
C14_TokenBoundaries ==
    Tokenized =>
        /\ Len(tokens) = Cardinality(TokenStarts(cleanedDefinition))
        /\ \A k \in 1..Len(tokens) :
               /\ tokens[k] = TokenAt(cleanedDefinition,
                                      NthPosition(TokenStarts(cleanedDefinition), k))
               /\ tokens[k] # <<>>
               /\ \A j \in 1..Len(tokens[k]) : tokens[k][j] \notin Whitespace
               /\ \/ tokens[k] \in {OpenParen, CloseParen}
                  \/ \A j \in 1..Len(tokens[k]) : tokens[k][j] \notin Parens

\* a text with a run of two atom characters, whitespace and a parenthesis
\* has been tokenized
C14_Witness ==
    /\ Tokenized
    /\ \E k \in 1..Len(tokens) : Len(tokens[k]) >= 2
    /\ \E k \in 1..Len(tokens) : tokens[k] \in {OpenParen, CloseParen}
    /\ \E i \in 1..Len(cleanedDefinition) : cleanedDefinition[i] \in Whitespace

-----------------------------------------------------------------------------
(* The converters on inputs with missing optional structure.                *)

\* the record with the properties of the set missing
Without(record, missing) ==
    [field \in DOMAIN record |->
        IF field = "absent" THEN missing
        ELSE IF field \in missing THEN <<>>
        ELSE record[field]]

OptionalActions ==
    {Without(action, missing) :
        action \in {MoveAction, RefuelAction},
        missing \in SUBSET {"parameters", "preconditions", "effects"}}

OptionalDomains ==
    {Domain(T("d"), <<action>>) : action \in OptionalActions}
    \cup {Domain(T("d"), <<MoveAction, action>>) : action \in OptionalActions}
    \cup {Without(MoveDomain, {"actions"})}

OptionalProblems ==
    {Without(problem, missing) :
        problem \in {RepeatedProblem,
                     Problem(T("p2"), <<oR1>>,
                             <<WithArguments(<<"=">>, <<FuelR1, Number(10)>>)>>,
                             <<And(<<AtB>>)>>)},
        missing \in SUBSET {"init", "goal", "objects"}}

OptionalRequests ==
    {DomainRequest(domain) : domain \in OptionalDomains}
    \cup {ProblemRequest(problem) : problem \in OptionalProblems}

\* a process that converts inputs with missing structure
InitOptional ==
    /\ ParseIdle
    /\ MindIdle
    /\ UiIdle
    /\ actionGroupCounter = 0
    /\ problemGroupCounter = 0
    /\ calls = <<>>
    /\ requests \in BoundedSeq(OptionalRequests, MaxConversions) \ {<<>>}

SpecOptional == InitOptional /\ [][NextGraph]_vars

\* the input with every missing property given as an empty list
Emptied(input) == Without(input, {})

\* what the converter returns for the input of a call when nothing throws
ReturnedFor(call) ==
    IF call.kind = "domain"
    THEN createDomainGraph(
             [Emptied(call.input) EXCEPT
                 !.actions = [i \in 1..Len(@) |-> Emptied(@[i])]],
             call.counter)
    ELSE createProblemGraph(Emptied(call.input), START_X, START_Y, call.counter).elements

\* the description nodes among the elements
DescriptionNodes(elements) ==
    SelectSeq(elements, LAMBDA e : e.role \in {"action-description",
                                               "problem-init-description",
                                               "problem-goal-description"})

\* every description of the input of the call is missing
LacksDescriptions(call) ==
    IF call.kind = "domain"
    THEN \A i \in 1..Len(domainActions(call.input)) :
             /\ Len(domainActions(call.input)[i].description) = 0
             /\ Len(domainActions(call.input)[i].actionDescription) = 0
    ELSE Len(call.input.initDescription) = 0 /\ Len(call.input.goalDescription) = 0

\* C12: the conversion of an input with missing optional structure (a
\* problem without init, goal, objects or descriptions, a domain without
\* actions, an action without description, parameters, preconditions or
\* effects) completes without throwing and emits no node for the missing
\* band: it returns what it returns when the band is empty, and no
\* description node when the descriptions are missing.
C12_NeverRaises ==
    \A i \in 1..Len(calls) :
        /\ ~calls[i].threw
        /\ calls[i].elements = ReturnedFor(calls[i])
        /\ LacksDescriptions(calls[i]) => DescriptionNodes(calls[i].elements) = <<>>

\* the conversion of a domain threw for an action without preconditions
C12_Thrown ==
    \E i \in 1..Len(calls) :
        /\ calls[i].threw
        /\ calls[i].kind = "domain"
        /\ \E k \in 1..Len(calls[i].input.actions) :
               "preconditions" \in calls[i].input.actions[k].absent

-----------------------------------------------------------------------------
(* parsePddlToMind as one call, for its callers.                            *)

\* a call that threw the error / a call that returned the mind
Thrown(err) == [error |-> err, mind |-> NoMind]
Returned(mind) == [error |-> "", mind |-> mind]

RECURSIVE parseTokensFrom(_, _, _, _)
\* tokens.forEach of parseTokensToSExpr after the step that gave r
parseTokensAfter(r, toks, i) ==
    IF r.error # "" THEN r ELSE parseTokensFrom(r.stack, r.heap, toks, i + 1)
\* parseTokensToSExpr from token i on, and the check after the loop
parseTokensFrom(stk, hp, toks, i) ==
    IF i > Len(toks) THEN [stack |-> stk, heap |-> hp, error |-> parseEndCheck(stk)]
    ELSE parseTokensAfter(parseTokenStep(stk, hp, toks[i]), toks, i)

\* lines 345-375
mindOfDefinitions(hp, defs) ==
    IF defs = <<>> THEN Thrown("noDefinitions")
    ELSE Returned(renderDefinitions(hp, createRootMind(rootLabel(defs)), defs, 1))

\* lines 340-343 on the outcome of parseTokensToSExpr
mindOfParse(r) ==
    IF r.error # "" THEN Thrown(r.error)
    ELSE mindOfDefinitions(r.heap, classifyAll(r.heap, SelectSeq(r.heap[r.stack[1]], isList)))

\* lines 335-340
mindOfTokens(toks) ==
    IF Len(toks) = 0 THEN Thrown("tokenizeEmpty")
    ELSE mindOfParse(parseTokensFrom(InitialStack, InitialHeap, toks, 1))

\* lines 330-335
mindOfCleaned(cleaned) ==
    IF cleaned = <<>> THEN Thrown("empty") ELSE mindOfTokens(tokenize(cleaned))

\* parsePddlToMind(definition)
parsePddlToMind(text) == mindOfCleaned(trim(stripComments(text)))

-----------------------------------------------------------------------------
(* The PDDL dialog (part_001, and its synchronous variant part_002) and     *)
(* handlePddlUpload (part_005).                                             *)

\* the largest number of runs of the effect of the dialog
MaxEffects == 3
\* the largest number of files uploaded
MaxUploads == 2

\* the texts typed into the dialog
DialogTexts ==
    {<<>>, <<" ">>, <<"(">>, <<";", "a">>, <<"(", "a", ")">>,
     <<" ", "(", "d", "e", "f", "i", "n", "e", ")">>,
     <<"(", "d", "e", "f", "i", "n", "e", " ", "(", "d", "o", "m", "a", "i", "n", ")", ")">>}

\* an effect run: the text it converts, the cancelled flag of its closure,
\* where its convertPddl stands, and what parsePddlToMind returned to it
EffectRun(text, at, mind) ==
    [text |-> text, cancelled |-> FALSE, at |-> at, mind |-> mind]

\* the cleanup of the effect: cancelled = true in the closure of every run
cancelAll(runs) == [i \in 1..Len(runs) |-> [runs[i] EXCEPT !.cancelled = TRUE]]

\* no convertPddl is between two of its statements
NoneResuming == \A i \in 1..Len(effectRuns) : effectRuns[i].at # "resumed"

\* onChange of the input: setText(event.target.value)
ChangeText ==
    /\ dialog.open
    /\ NoneResuming
    /\ \E t \in DialogTexts :
           /\ t # dialog.text
           /\ dialog' = [dialog EXCEPT !.text = t]
    /\ UNCHANGED <<effectRuns, board>>
    /\ UNCHANGED <<parseVars, graphVars, mindVars, uploadVars>>

\* useDeferredValue(text.trim()) catches up with the text
DeferText ==
    /\ dialog.open
    /\ NoneResuming
    /\ dialog.deferredText # trim(dialog.text)
    /\ dialog' = [dialog EXCEPT !.deferredText = trim(dialog.text)]
    /\ UNCHANGED <<effectRuns, board>>
    /\ UNCHANGED <<parseVars, graphVars, mindVars, uploadVars>>

\* part_001, lines 34-75, up to the await: the state the effect leaves for
\* the outcome of parsePddlToMind
asyncEffectState(d, outcome) ==
    IF d.deferredText = <<>>
    THEN [d EXCEPT !.value = <<>>, !.error = "", !.isParsing = FALSE]
    ELSE IF outcome.error # ""
    THEN \* the call threw inside try: catch and finally run at once
         [d EXCEPT !.value = <<>>, !.error = outcome.error, !.isParsing = FALSE]
    ELSE [d EXCEPT !.isParsing = TRUE, !.error = "", !.value = <<>>]

\* part_002, lines 33-47: the state the effect leaves
syncEffectState(d, outcome) ==
    IF d.deferredText = <<>>
    THEN [d EXCEPT !.value = <<>>, !.error = ""]
    ELSE IF outcome.error # ""
    THEN [d EXCEPT !.error = outcome.error, !.value = <<>>]
    ELSE [d EXCEPT !.value = <<outcome.mind>>, !.error = ""]

\* the effect for the outcome of parsePddlToMind(deferredText)
runEffect(outcome) ==
    /\ dialog' = IF dialog.variant = "async" THEN asyncEffectState(dialog, outcome)
                 ELSE syncEffectState(dialog, outcome)
    /\ effectRuns' =
           Append(cancelAll(effectRuns),
                  EffectRun(dialog.deferredText,
                            IF dialog.variant = "async" /\ dialog.deferredText # <<>>
                               /\ outcome.error = ""
                            THEN "awaiting" ELSE "done",
                            outcome.mind))

\* the effect on deferredText runs: the cleanup of the run before, then the
\* body
RunEffect ==
    /\ dialog.open
    /\ NoneResuming
    /\ Len(effectRuns) < MaxEffects
    /\ IF effectRuns = <<>> THEN TRUE
       ELSE effectRuns[Len(effectRuns)].text # dialog.deferredText
    /\ runEffect(parsePddlToMind(dialog.deferredText))
    /\ UNCHANGED board
    /\ UNCHANGED <<parseVars, graphVars, mindVars, uploadVars>>

\* convertPddl resumes after the await without the test of cancelled
ResumeConversionStale ==
    /\ NoneResuming
    /\ \E i \in 1..Len(effectRuns) :
           /\ effectRuns[i].at = "awaiting"
           /\ effectRuns' = [effectRuns EXCEPT ![i].at = "resumed"]
           /\ dialog' = [dialog EXCEPT !.value = <<effectRuns[i].mind>>]
    /\ UNCHANGED board
    /\ UNCHANGED <<parseVars, graphVars, mindVars, uploadVars>>

\* part_001, lines 51-55: convertPddl resumes after the await
ResumeConversion ==
    /\ NoneResuming
    /\ \E i \in 1..Len(effectRuns) :
           /\ effectRuns[i].at = "awaiting"
           /\ IF effectRuns[i].cancelled
              THEN /\ effectRuns' = [effectRuns EXCEPT ![i].at = "done"]
                   /\ UNCHANGED dialog
              ELSE /\ effectRuns' = [effectRuns EXCEPT ![i].at = "resumed"]
                   /\ dialog' = [dialog EXCEPT !.value = <<effectRuns[i].mind>>]
    /\ UNCHANGED board
    /\ UNCHANGED <<parseVars, graphVars, mindVars, uploadVars>>

\* part_001, lines 56 and 63-67: setError(null), then finally
FinishConversion ==
    /\ \E i \in 1..Len(effectRuns) :
           /\ effectRuns[i].at = "resumed"
           /\ effectRuns' = [effectRuns EXCEPT ![i].at = "done"]
           /\ dialog' = [dialog EXCEPT !.error = "", !.isParsing = FALSE]
    /\ UNCHANGED board
    /\ UNCHANGED <<parseVars, graphVars, mindVars, uploadVars>>

\* a mutant of insertedFragment: the preview is inserted even when empty
insertedFragmentAlways(d) == <<d.value>>

\* insertToBoard, lines 77-98: what board.insertFragment receives, nothing
\* when the function returns at its first line
insertedFragment(d) == IF Len(d.value) = 0 THEN <<>> ELSE <<d.value>>

\* the runs whose convertPddl has not resumed yet
awaitingRuns(runs) == SelectSeq(runs, LAMBDA run : run.at = "awaiting")

\* insertToBoard: the fragment is inserted and the dialog is closed, which
\* unmounts the component: its state is dropped and the cleanup of its
\* effect runs; only the closures that wait for their await live on
InsertToBoard ==
    /\ dialog.open
    /\ NoneResuming
    /\ IF insertedFragment(dialog) = <<>>
       THEN UNCHANGED <<dialog, effectRuns, board>>
       ELSE /\ board' = board \o insertedFragment(dialog)
            /\ dialog' = ClosedDialog
            /\ effectRuns' = awaitingRuns(cancelAll(effectRuns))
    /\ UNCHANGED <<parseVars, graphVars, mindVars, uploadVars>>

\* what the file chosen holds: nothing but whitespace, a text in which
\* detectPddlFileType finds neither header, a domain or a problem
FileContents == {"empty", "unrecognised", "domain", "problem"}

\* handlePddlUpload, lines 978-1011: the checks of the content, then the
\* request to the parse service; the button is disabled while uploading
HandlePddlUpload ==
    /\ ~dialog.open
    /\ ~upload.uploading
    /\ Len(upload.alerts) + Len(fileEntries) < MaxUploads
    /\ \E content \in FileContents :
           upload' = IF content = "empty"
                     THEN [upload EXCEPT !.alerts = Append(@, "emptyFile")]
                     ELSE IF content = "unrecognised"
                     THEN [upload EXCEPT !.alerts = Append(@, "unknownType")]
                     ELSE [upload EXCEPT !.uploading = TRUE,
                                         !.pending = <<content>>]
    /\ UNCHANGED fileEntries
    /\ UNCHANGED <<parseVars, graphVars, mindVars, dialogVars>>

\* a response of the parse service: fetch rejects, or resolves with a
\* body that is JSON or not, a status that is ok or not, and a payload with
\* its success flag and its content (<<>> when it has none)
Response(rejected, json, ok, success, content) ==
    [rejected |-> rejected, json |-> json, ok |-> ok, success |-> success,
     content |-> content]

\* the contents the service sends for a file of the kind
Contents(kind) ==
    IF kind = "domain"
    THEN {MoveDomain, Domain(T("d"), <<Without(MoveAction, {"preconditions"})>>)}
    ELSE {RepeatedProblem}

Responses(kind) ==
    {Response(TRUE, FALSE, FALSE, FALSE, <<>>), Response(FALSE, FALSE, TRUE, FALSE, <<>>)}
    \cup {Response(FALSE, TRUE, ok, success, content) :
              ok \in BOOLEAN, success \in BOOLEAN,
              content \in {<<>>} \cup {<<c>> : c \in Contents(kind)}}

\* the await of fetch ends
ReceiveResponse ==
    /\ upload.pending # <<>>
    /\ upload.response = <<>>
    /\ \E response \in Responses(upload.pending[1]) :
           upload' = [upload EXCEPT !.response = <<response>>]
    /\ UNCHANGED fileEntries
    /\ UNCHANGED <<parseVars, graphVars, mindVars, dialogVars>>

\* lines 1012-1029 and 1030-1033: the response is one the handler goes on
\* with; every other one throws, and reading the name of a missing content
\* throws as well
parseSucceeded(response) ==
    /\ ~response.rejected
    /\ response.json
    /\ response.ok
    /\ response.success
    /\ response.content # <<>>

\* lines 1040-1050: the graph of the content, an empty canvas when the
\* conversion throws
graphCall(kind, content, counter) ==
    IF kind = "domain"
    THEN IF firstThrowing(domainActions(content)) = 0
         THEN [kind |-> kind, input |-> content, counter |-> counter, threw |-> FALSE,
               elements |-> createDomainGraph(content, counter)]
         ELSE [kind |-> kind, input |-> content, counter |-> counter, threw |-> TRUE,
               elements |-> <<>>]
    ELSE [kind |-> kind, input |-> content, counter |-> counter, threw |-> FALSE,
          elements |-> createProblemGraph(content, START_X, START_Y, counter).elements]

\* createBlankFile(uniqueName, initialData, detectedType)
createBlankFile(name, children, fileType) ==
    [name |-> name, children |-> children, fileType |-> fileType]

\* lines 1034-1066 for a response the handler goes on with
storeFile(kind, content) ==
    LET call == graphCall(kind, content,
                          IF kind = "domain" THEN actionGroupCounter
                          ELSE problemGroupCounter) IN
    /\ calls' = Append(calls, call)
    /\ fileEntries' = Append(fileEntries,
                             createBlankFile(Join(content.name), call.elements, kind))
    /\ actionGroupCounter' =
           IF kind # "domain" THEN actionGroupCounter
           ELSE IF call.threw
           THEN actionGroupCounter + firstThrowing(domainActions(content))
           ELSE actionGroupCounter + Len(domainActions(content))
    /\ problemGroupCounter' =
           IF kind = "problem" THEN problemGroupCounter + 1 ELSE problemGroupCounter
    /\ upload' = [upload EXCEPT !.uploading = FALSE, !.pending = <<>>, !.response = <<>>]

\* lines 1012-1078 after the await of fetch: the new file, or the alert of
\* the catch clause; finally setUploading(false)
HandleResponse ==
    /\ upload.response # <<>>
    /\ IF parseSucceeded(upload.response[1])
       THEN /\ storeFile(upload.pending[1], upload.response[1].content[1])
            /\ UNCHANGED requests
       ELSE /\ upload' = [upload EXCEPT !.uploading = FALSE, !.pending = <<>>,
                                        !.response = <<>>,
                                        !.alerts = Append(@, "parseFailed")]
            /\ UNCHANGED <<fileEntries, graphVars>>
    /\ UNCHANGED <<parseVars, mindVars, dialogVars>>

\* the dialog is open on a text, or closed
InitUi ==
    /\ ParseIdle
    /\ MindIdle
    /\ GraphIdle
    /\ dialog \in {ClosedDialog}
                  \cup {[ClosedDialog EXCEPT !.open = TRUE, !.variant = variant,
                                             !.text = text, !.deferredText = trim(text)] :
                            variant \in {"async", "sync"}, text \in DialogTexts}
    /\ effectRuns = <<>>
    /\ board = <<>>
    /\ fileEntries = <<>>
    /\ upload = IdleUpload

NextUi ==
    \/ ChangeText
    \/ DeferText
    \/ RunEffect
    \/ ResumeConversion
    \/ FinishConversion
    \/ InsertToBoard
    \/ HandlePddlUpload
    \/ ReceiveResponse
    \/ HandleResponse

SpecUi == InitUi /\ [][NextUi]_vars

-----------------------------------------------------------------------------
(* Properties of the dialog and of the upload.                              *)

\* the texts for which parsePddlToMind returns a mind map
ParsedMinds ==
    {parsePddlToMind(text).mind : text \in {t \in DialogTexts : parsePddlToMind(t).error = ""}}

\* in the dialog the error is null or the preview is empty, a preview is
\* the mind map of a text that parses, and every fragment on the board is
\* such a preview
NoPreviewOfFailure ==
    /\ dialog.error = "" \/ dialog.value = <<>>
    /\ \A i \in 1..Len(dialog.value) : dialog.value[i] \in ParsedMinds
    /\ \A i \in 1..Len(board) :
           /\ board[i] # <<>>
           /\ \A k \in 1..Len(board[i]) : board[i][k] \in ParsedMinds

\* a step that calls a graph converter or creates a file entry handles a
\* response that was ok with payload.success true
NoGraphOfFailure ==
    (calls' # calls \/ fileEntries' # fileEntries) =>
        /\ upload.response # <<>>
        /\ ~upload.response[1].rejected
        /\ upload.response[1].json
        /\ upload.response[1].ok
        /\ upload.response[1].success

\* C13: no diagram is produced from a failed parse: in the dialog the error
\* is null or the preview is empty at every state, and insertToBoard inserts
\* nothing while the preview is empty; the upload handler calls the graph
\* converters only after a response that was ok with payload.success true,
\* and creates no file entry when the parse failed.
C13_NoDiagramFromFailedParse ==
    /\ []NoPreviewOfFailure
    /\ [][NoGraphOfFailure]_vars

\* a preview was inserted from the dialog, one upload failed to parse and
\* one upload created a file
C13_Witness ==
    /\ Len(board) = 1
    /\ Len(fileEntries) = 1
    /\ "parseFailed" \in {upload.alerts[k] : k \in 1..Len(upload.alerts)}

-----------------------------------------------------------------------------
(* Properties of the action diagrams.                                       *)

\* the group elements of a list, in order: one for each action converted
GroupsOf(elements) == SelectSeq(elements, LAMBDA e : e.type = "group")

\* the elements registered for the group
MembersOf(elements, group) == SelectSeq(elements, LAMBDA e : e.groupId = group.id)

\* C15: for the preconditions and for the effects, the diagram of an action
\* holds exactly one predicate ellipse for each label that occurs in the
\* band, however often it occurs.
C15_ActionDedup ==
    \A n \in 1..Len(calls) :
        (calls[n].kind = "domain" /\ ~calls[n].threw) =>
            \A k \in 1..Len(domainActions(calls[n].input)) :
                LET action == domainActions(calls[n].input)[k]
                    members == MembersOf(calls[n].elements,
                                         GroupsOf(calls[n].elements)[k])
                IN /\ \A label \in CategoryLabels(action.preconditions) :
                          Cardinality(PredicateEllipses(members, PRECONDITION_COLOR,
                                                        label)) = 1
                   /\ \A label \in CategoryLabels(action.effects) :
                          Cardinality(PredicateEllipses(members, EFFECT_COLOR, label)) = 1

\* an action whose preconditions hold the same predicate twice was
\* converted, and its diagram holds two ellipses for it
C15_Repeated ==
    \E n \in 1..Len(calls) :
        /\ calls[n].kind = "domain"
        /\ Len(calls[n].input.actions) = 1
        /\ calls[n].input.actions[1].preconditions = <<AtFrom, AtFrom, Not(AtFrom)>>
        /\ Cardinality(PredicateEllipses(calls[n].elements, PRECONDITION_COLOR, "at")) = 2

-----------------------------------------------------------------------------
(* Edges between predicate nodes and parameter or object nodes.             *)

\* the arrow lines of a list from one node to another
EdgesBetween(elements, sourceId, targetId) ==
    {i \in 1..Len(elements) :
        /\ elements[i].type = "arrow-line"
        /\ elements[i].sourceId = sourceId
        /\ elements[i].targetId = targetId}

\* the arrow lines of a list that start or end at a node
EdgesAt(elements, id) ==
    {i \in 1..Len(elements) :
        /\ elements[i].type = "arrow-line"
        /\ elements[i].sourceId = id \/ elements[i].targetId = id}

\* the ids of the node of a parameter and of the node of an object
ParameterNodeId(action, name) == sanitizeId(T("param-") \o action.name \o <<"-">> \o name)
ObjectNodeId(problem, name) == sanitizeId(T("object-") \o problem.name \o <<"-">> \o name)

\* the names a list of typed parameters declares
Declared(parameters) == {parameters[i].name : i \in 1..Len(parameters)}

\* the predicate ellipses of a band, in the order of the list
Ellipses(elements, fill) ==
    SelectSeq(elements, LAMBDA e : e.shape = "ellipse" /\ e.fill = fill)

\* the argument lists of the extracted predicates that a node stands for
ArgumentLists(extracted, shown(_)) ==
    LET picked == SelectSeq(extracted, shown)
    IN [i \in 1..Len(picked) |-> extractExpressionArguments(picked[i].expr)]

\* the rule of the edges of a node that stands for the predicates with the
\* argument lists argLists: an edge to the node for each first argument, an
\* edge from the node for each later argument, and no other edge
EdgeRule(elements, nodeId, argLists, declared, NodeId(_)) ==
    LET firsts(name) == {i \in 1..Len(argLists) :
                            argLists[i] # <<>> /\ argLists[i][1] = name}
        laters(name) == {ij \in (1..Len(argLists)) \X (2..3) :
                            ij[2] <= Len(argLists[ij[1]]) /\ argLists[ij[1]][ij[2]] = name}
        uses == {ij \in (1..Len(argLists)) \X (1..3) :
                    ij[2] <= Len(argLists[ij[1]]) /\ argLists[ij[1]][ij[2]] \in declared}
    IN /\ \A name \in declared :
              /\ Cardinality(EdgesBetween(elements, NodeId(name), nodeId))
                     = Cardinality(firsts(name))
              /\ Cardinality(EdgesBetween(elements, nodeId, NodeId(name)))
                     = Cardinality(laters(name))
       /\ Cardinality(EdgesAt(elements, nodeId)) = Cardinality(uses)

\* the rule for the bands of the actions of a domain: the i-th ellipse of a
\* band stands for the i-th predicate of the band
ActionEdgeRule(call) ==
    \A k \in 1..Len(domainActions(call.input)) :
        LET action == domainActions(call.input)[k]
            members == MembersOf(call.elements, GroupsOf(call.elements)[k])
            NodeId(name) == ParameterNodeId(action, name)
            Band(expressions, fill) ==
                LET extracted == extractAllPredicates(expressions)
                    nodes == Ellipses(members, fill)
                IN \A i \in 1..Len(extracted) :
                       EdgeRule(members, nodes[i].id,
                                <<extractExpressionArguments(extracted[i].expr)>>,
                                Declared(action.parameters), NodeId)
        IN /\ Band(action.preconditions, PRECONDITION_COLOR)
           /\ Band(action.effects, EFFECT_COLOR)

\* the ellipse of a label in a category of a problem
EllipseOf(elements, fill, label) ==
    elements[CHOOSE i \in PredicateEllipses(elements, fill, label) : TRUE]

\* C17 as stated: every predicate node of an action and of a problem has
\* exactly one edge from the node of its first argument when that names a
\* declared parameter (object), exactly one edge to the node of each later
\* argument that names one, and no edge for the other arguments.
C17_OneEdgePerArgument ==
    \A n \in 1..Len(calls) :
        IF calls[n].kind = "domain"
        THEN ~calls[n].threw => ActionEdgeRule(calls[n])
        ELSE LET problem == calls[n].input
                 elements == calls[n].elements
                 NodeId(name) == ObjectNodeId(problem, name)
                 Category(expressions, fill) ==
                     LET extracted == extractAllPredicates(expressions) IN
                     \A i \in 1..Len(extracted) :
                         EdgeRule(elements,
                                  EllipseOf(elements, fill,
                                            Join(getPredicateLabel(extracted[i]))).id,
                                  <<extractExpressionArguments(extracted[i].expr)>>,
                                  Declared(problem.objects), NodeId)
             IN /\ Category(problem.init, PRECONDITION_COLOR)
                /\ Category(problem.goal, EFFECT_COLOR)

\* C17 (amended): in an action every predicate node has one edge from the
\* node of its first argument and one edge to the node of each later
\* argument, for the arguments that name declared parameters, and no other
\* edge; in a problem the node of a label has these edges once for every
\* predicate of the category that has the label.
C17_OneEdgePerOccurrence ==
    \A n \in 1..Len(calls) :
        IF calls[n].kind = "domain"
        THEN ~calls[n].threw => ActionEdgeRule(calls[n])
        ELSE LET problem == calls[n].input
                 elements == calls[n].elements
                 NodeId(name) == ObjectNodeId(problem, name)
                 Category(expressions, fill) ==
                     LET extracted == extractAllPredicates(expressions) IN
                     \A label \in CategoryLabels(expressions) :
                         EdgeRule(elements, EllipseOf(elements, fill, label).id,
                                  ArgumentLists(extracted,
                                      LAMBDA e : Join(getPredicateLabel(e)) = label),
                                  Declared(problem.objects), NodeId)
             IN /\ Category(problem.init, PRECONDITION_COLOR)
                /\ Category(problem.goal, EFFECT_COLOR)

\* a problem whose init holds (not (at r1 room-b)) twice, (at r1 room-a) and
\* (at r1 room-b) was converted: two edges lead from r1 to the node `not at`
\* and two from the node to room-b
C17_Witness ==
    \E n \in 1..Len(calls) :
           /\ calls[n].kind = "problem"
           /\ calls[n].input.init = <<Not(AtB), AtA, Not(AtB), AtB>>
           /\ calls[n].input.objects = <<oR1, oA, oB>>
           /\ Cardinality(EdgesBetween(calls[n].elements,
                              ObjectNodeId(calls[n].input, oR1.name),
                              EllipseOf(calls[n].elements, PRECONDITION_COLOR,
                                        "not at").id)) = 2
           /\ Cardinality(EdgesBetween(calls[n].elements,
                              EllipseOf(calls[n].elements, PRECONDITION_COLOR,
                                        "not at").id,
                              ObjectNodeId(calls[n].input, oB.name))) = 2

-----------------------------------------------------------------------------
(* Numeric effects of an action.                                            *)

\* the heads of the numeric effects of PDDL
NumericEffectHeads ==
    {T("increase"), T("decrease"), T("assign"), T("scale-up"), T("scale-down")}

RECURSIVE EffectTree(_)
RECURSIVE EffectTreeAll(_)
\* the nodes of an effect tree: the node, then what its children, its items,
\* its argument and its arguments hold
EffectTree(expr) ==
    <<expr>>
    \o (IF "children" \in expr.has THEN EffectTreeAll(expr.children) ELSE <<>>)
    \o (IF "items" \in expr.has THEN EffectTreeAll(expr.items) ELSE <<>>)
    \o (IF "argument" \in expr.has THEN EffectTreeAll(expr.argument) ELSE <<>>)
    \o (IF "arguments" \in expr.has
        THEN EffectTreeAll(SelectSeq(expr.arguments, LAMBDA a : "type" \in a.has))
        ELSE <<>>)
EffectTreeAll(exprs) ==
    IF exprs = <<>> THEN <<>>
    ELSE EffectTree(Head(exprs)) \o EffectTreeAll(Tail(exprs))

\* the numeric effects found anywhere in a list of effects
NumericEffectsOf(effects) ==
    SelectSeq(EffectTreeAll(effects), LAMBDA e : e.type \in NumericEffectHeads)

\* the label of the operator node of a numeric effect
NumericEffectLabel(effect) ==
    IF effect.arguments # <<>> /\ effect.arguments[1].type = T("function")
    THEN Join(effect.type \o <<" ">> \o effect.arguments[1].name)
    ELSE Join(effect.type)

\* C18: every node of the effect tree of an action whose type is increase,
\* decrease, assign, scale-up or scale-down is collected by
\* extractNumericEffects and has an operator node in the numeric band of
\* the action.
C18_NumericEffectsCollected ==
    \A n \in 1..Len(calls) :
        (calls[n].kind = "domain" /\ ~calls[n].threw) =>
            \A k \in 1..Len(domainActions(calls[n].input)) :
                LET action == domainActions(calls[n].input)[k]
                    members == MembersOf(calls[n].elements,
                                         GroupsOf(calls[n].elements)[k])
                    wanted == NumericEffectsOf(action.effects)
                    shown == Ellipses(members, EFFECT_COLOR)
                IN /\ extractNumericEffects(action.effects) = wanted
                   /\ \A i \in 1..Len(wanted) :
                          \E j \in 1..Len(shown) :
                              shown[j].text = NumericEffectLabel(wanted[i])

\* the action whose effect holds an assign, an increase and a scale-up was
\* converted, and its diagram shows the operator node of the increase only
C18_Assigned ==
    \E n \in 1..Len(calls) :
        /\ calls[n].kind = "domain"
        /\ calls[n].input = ResetDomain
        /\ Len(NumericEffectsOf(ResetAction.effects)) = 3
        /\ [j \in 1..Len(Ellipses(calls[n].elements, EFFECT_COLOR)) |->
                Ellipses(calls[n].elements, EFFECT_COLOR)[j].text]
               = <<"p", "increase total-cost">>

-----------------------------------------------------------------------------
(* The predicates of a list of expressions.                                 *)

RECURSIVE ReachablePredicates(_)
RECURSIVE ReachablePredicatesEach(_)
\* the predicates reached from an expression through the argument of a `not`
\* and through the children, the items and the argument of any other node
\* that is not a predicate, in the order of the walk
ReachablePredicates(expr) ==
    IF expr.type = T("predicate") THEN <<expr>>
    ELSE IF expr.type = T("not") /\ "argument" \in expr.has
    THEN ReachablePredicatesEach(expr.argument)
    ELSE (IF "children" \in expr.has THEN ReachablePredicatesEach(expr.children) ELSE <<>>)
         \o (IF "items" \in expr.has THEN ReachablePredicatesEach(expr.items) ELSE <<>>)
         \o (IF "argument" \in expr.has THEN ReachablePredicatesEach(expr.argument)
             ELSE <<>>)
ReachablePredicatesEach(exprs) ==
    IF exprs = <<>> THEN <<>>
    ELSE ReachablePredicates(Head(exprs)) \o ReachablePredicatesEach(Tail(exprs))

\* the expressions of a list of extracted predicates
ExpressionsOf(extracted) == [i \in 1..Len(extracted) |-> extracted[i].expr]

\* C19: extractAllPredicates returns, once each and in the order of the
\* walk, every predicate reachable through `not` arguments and through the
\* children, the items and the argument of a container, also of a container
\* that has more than one of these fields, and nothing but predicates.
C19_EveryPredicateCollected ==
    \A n \in 1..Len(calls) :
        LET Complete(expressions) ==
                ExpressionsOf(extractAllPredicates(expressions))
                    = ReachablePredicatesEach(expressions)
        IN IF calls[n].kind = "domain"
           THEN ~calls[n].threw =>
                    \A k \in 1..Len(domainActions(calls[n].input)) :
                        /\ Complete(domainActions(calls[n].input)[k].preconditions)
                        /\ Complete(domainActions(calls[n].input)[k].effects)
           ELSE /\ Complete(calls[n].input.init)
                /\ Complete(calls[n].input.goal)

\* the action whose precondition has the children (at ?r ?from) and the items
\* (not (connected ?from ?to)) was converted, and its diagram shows the
\* precondition at only
C19_ItemsSkipped ==
    \E n \in 1..Len(calls) :
        /\ calls[n].kind = "domain"
        /\ calls[n].input = GuardedDomain
        /\ ReachablePredicatesEach(GuardedAction.preconditions) = <<AtFrom, Connected>>
        /\ ExpressionsOf(extractAllPredicates(GuardedAction.preconditions)) = <<AtFrom>>
        /\ EllipseLabels(calls[n].elements, calls[n].elements[1].id, PRECONDITION_COLOR)
               = <<"at">>

-----------------------------------------------------------------------------
(* Operator nodes and function nodes of the comparators of a problem.       *)

\* the literal text of the i-th argument of a comparator, <<>> when the
\* argument is missing, a function or anything but a numeric literal
LiteralOf(comparator, i) ==
    IF i > Len(comparator.arguments) \/ isFunctionExpressionArgument(comparator.arguments[i])
    THEN <<>>
    ELSE getNumericLiteralText(comparator.arguments[i])

\* a comparator with a numeric literal as left or right argument
HasLiteral(comparator) == LiteralOf(comparator, 1) # <<>> \/ LiteralOf(comparator, 2) # <<>>

\* the label its operator node shows: the literals around the symbol
OperatorLabelOf(comparator) ==
    Join(JoinTexts(SelectSeq(<<LiteralOf(comparator, 1), getComparatorLabel(comparator.type),
                               LiteralOf(comparator, 2)>>,
                             LAMBDA segment : segment # <<>>),
                   <<" ">>))

\* the labels of the functions that are arguments of the comparators
FunctionLabels(comparators) ==
    {Join(comparators[i].arguments[j].name) :
        <<i, j>> \in {ij \in (1..Len(comparators)) \X (1..2) :
                        /\ ij[2] <= Len(comparators[ij[1]].arguments)
                        /\ isFunctionExpressionArgument(comparators[ij[1]].arguments[ij[2]])}}

\* the ellipses of a list with a fill and a label
EllipsesShowing(elements, fill, label) ==
    {i \in 1..Len(elements) :
        elements[i].shape = "ellipse" /\ elements[i].fill = fill /\ elements[i].text = label}

\* 1 when the set is not empty, 0 otherwise
OneIf(set) == IF set = {} THEN 0 ELSE 1

\* the function nodes of a problem: one for each label and category
FunctionNodesPerCategory(elements, initComparators, goalComparators) ==
    \A label \in FunctionLabels(initComparators) \cup FunctionLabels(goalComparators) :
        Cardinality(EllipsesShowing(elements, FUNCTION_NODE_COLOR, label))
            = OneIf(FunctionLabels(initComparators) \cap {label})
              + OneIf(FunctionLabels(goalComparators) \cap {label})

\* the comparators of a list that show a label
Showing(comparators, label) ==
    {i \in 1..Len(comparators) : OperatorLabelOf(comparators[i]) = label}

OperatorNodesFor(comparators, label) ==
    LET showing == Showing(comparators, label)
    IN IF \E i \in showing : HasLiteral(comparators[i]) THEN 1 ELSE Cardinality(showing)

-----------------------------------------------------------------------------
(* One top-level form made of a head and of segments.                       *)

\* the number of segments of the form
MaxSegments == 2

\* the tokens of (domain d1)
SegDomain ==
    <<<<"(">>, <<"d", "o", "m", "a", "i", "n">>, <<"d", "1">>, <<")">>>>

\* the tokens of (Problem p1)
SegProblem ==
    <<<<"(">>, <<"P", "r", "o", "b", "l", "e", "m">>, <<"p", "1">>, <<")">>>>

\* the tokens of (DOMAIN (x) y)
SegUnnamed ==
    <<<<"(">>, <<"D", "O", "M", "A", "I", "N">>, <<"(">>, <<"x">>, <<")">>, <<"y">>,
      <<")">>>>

\* the tokens of (problem)
SegBare ==
    <<<<"(">>, <<"p", "r", "o", "b", "l", "e", "m">>, <<")">>>>

\* the tokens of ()
SegEmpty ==
    <<<<"(">>, <<")">>>>

\* the tokens of x
SegAtom ==
    <<<<"x">>>>

\* the tokens of (:types a b - t c - u d)
SegTypes ==
    <<<<"(">>, <<":", "t", "y", "p", "e", "s">>, <<"a">>, <<"b">>, <<"-">>, <<"t">>,
      <<"c">>, <<"-">>, <<"u">>, <<"d">>, <<")">>>>

\* the tokens of (:constants a - t)
SegConstants ==
    <<<<"(">>, <<":", "c", "o", "n", "s", "t", "a", "n", "t", "s">>, <<"a">>, <<"-">>,
      <<"t">>, <<")">>>>

\* the tokens of (:action move :parameters (?r) :precondition :effect (p) x :duration)
SegAction ==
    <<<<"(">>, <<":", "a", "c", "t", "i", "o", "n">>, <<"m", "o", "v", "e">>,
      <<":", "p", "a", "r", "a", "m", "e", "t", "e", "r", "s">>, <<"(">>, <<"?", "r">>,
      <<")">>, <<":", "p", "r", "e", "c", "o", "n", "d", "i", "t", "i", "o", "n">>,
      <<":", "e", "f", "f", "e", "c", "t">>, <<"(">>, <<"p">>, <<")">>, <<"x">>,
      <<":", "d", "u", "r", "a", "t", "i", "o", "n">>, <<")">>>>

\* the tokens of (:action go :parameters (?r) :effect (p))
SegActionPlain ==
    <<<<"(">>, <<":", "a", "c", "t", "i", "o", "n">>, <<"g", "o">>,
      <<":", "p", "a", "r", "a", "m", "e", "t", "e", "r", "s">>, <<"(">>, <<"?", "r">>,
      <<")">>, <<":", "e", "f", "f", "e", "c", "t">>, <<"(">>, <<"p">>, <<")">>, <<")">>>>

\* the segments of the forms
Segments ==
    <<SegDomain, SegProblem, SegUnnamed, SegBare, SegEmpty, SegAtom,
      SegTypes, SegConstants, SegAction, SegActionPlain>>

\* what a form starts with: define in three cases, another atom, nothing
Heads ==
    {<<DefineAtom>>, <<<<"D", "e", "f", "i", "n", "e">>>>, <<toUpperCase(DefineAtom)>>,
     <<DomainAtom>>, <<>>}

RECURSIVE segmentTokens(_)
\* the tokens of the segments of the given indices, one after the other
segmentTokens(indices) ==
    IF indices = <<>> THEN <<>>
    ELSE Segments[indices[1]] \o segmentTokens(Tail(indices))

FormTokens ==
    {<<<<"(">>>> \o head \o segmentTokens(indices) \o <<<<")">>>> :
        head \in Heads, indices \in BoundedSeq(1..Len(Segments), MaxSegments)}

\* parsePddlToMind has tokenized a text that holds one form
InitForm ==
    /\ definition = <<>>
    /\ cleanedDefinition = <<>>
    /\ tokens \in FormTokens
    /\ pos = 0
    /\ stack = InitialStack
    /\ heap = InitialHeap
    /\ pc = "parse"
    /\ error = ""
    /\ formatted = <<>>
    /\ retokens = <<>>
    /\ GraphIdle
    /\ MindIdle
    /\ UiIdle

SpecForm == InitForm /\ [][NextMind]_vars

-----------------------------------------------------------------------------
(* The groups of a typed block.                                             *)

RECURSIVE TypedGroups(_, _, _)
\* the groups of the entries of a typed block from index i, names being
\* the names read since the last group: a `-` and the entry after it close
\* the group of the names before them, the names left at the end form the
\* last group
TypedGroups(entries, i, names) ==
    IF i > Len(entries)
    THEN IF names = <<>> THEN <<>> ELSE <<names>>
    ELSE IF entries[i] = <<"-">> /\ i < Len(entries)
    THEN <<names \o <<entries[i], entries[i + 1]>>>> \o TypedGroups(entries, i + 2, <<>>)
    ELSE TypedGroups(entries, i + 1, Append(names, entries[i]))

\* the texts of the groups: the entries of a group with spaces between them
GroupTexts(groups) == [i \in 1..Len(groups) |-> Join(JoinTexts(groups[i], <<" ">>))]

\* the texts of the children of a node
ChildTexts(node) == [i \in 1..Len(node.children) |-> node.children[i].text]

\* the segments of a definition that are :types or :constants blocks
\* whose entries are atoms
TypedBlocks(hp, d) ==
    {i \in 1..Len(d.segments) :
        /\ <<i - 1>> # d.headerIndex
        /\ isList(d.segments[i])
        /\ ListOf(hp, d.segments[i]) # <<>>
        /\ \A j \in 1..Len(ListOf(hp, d.segments[i])) : isAtom(ListOf(hp, d.segments[i])[j])
        /\ toLowerCase(ListOf(hp, d.segments[i])[1].atom) \in {TypesKey, ConstantsKey}
        /\ Len(ListOf(hp, d.segments[i])) > 1}

\* the texts of the entries of a list after its head
EntryTexts(list) == [j \in 1..Len(list) - 1 |-> list[j + 1].atom]

\* C21: the section of a :types or :constants block of a domain holds one
\* child for each group of its entries: the names before a `-` with the type
\* after it, the names after a type in a group of their own, and the names
\* left without a type in a last group.
C21_TypedGroups ==
    (pc = "returned" /\ Len(definitions) = 1 /\ definitions[1].kind = "domain") =>
        \A i \in TypedBlocks(heap, definitions[1]) :
            LET list == ListOf(heap, definitions[1].segments[i])
                title == Join(toTitleCase(list[1].atom))
            IN /\ \E k \in 1..Len(root.children) : root.children[k].text = title
               /\ \A k \in 1..Len(root.children) :
                      root.children[k].text = title =>
                          ChildTexts(root.children[k])
                              = GroupTexts(TypedGroups(EntryTexts(list), 1, <<>>))

\* the block (:types a b - t c - u d) of a domain was rendered as the single
\* child `a b - t c - u d`, where the groups are a b - t, c - u and d
C21_OneChild ==
    /\ pc = "returned"
    /\ Len(definitions) = 1
    /\ definitions[1].kind = "domain"
    /\ \E k \in 1..Len(root.children) :
           /\ root.children[k].text = "Types"
           /\ ChildTexts(root.children[k]) = <<"a b - t c - u d">>
    /\ \E i \in TypedBlocks(heap, definitions[1]) :
           GroupTexts(TypedGroups(EntryTexts(ListOf(heap, definitions[1].segments[i])),
                                  1, <<>>))
               = <<"a b - t", "c - u", "d">>

-----------------------------------------------------------------------------
(* The keywords of an action and their values.                              *)

\* the segments of a definition that are actions
ActionSegments(hp, d) ==
    {i \in 1..Len(d.segments) :
        /\ <<i - 1>> # d.headerIndex
        /\ isList(d.segments[i])
        /\ ListOf(hp, d.segments[i]) # <<>>
        /\ isAtom(ListOf(hp, d.segments[i])[1])
        /\ toLowerCase(ListOf(hp, d.segments[i])[1].atom) \in {ActionKey, DurativeActionAtom}}

\* the indices of the keyword atoms of an action, after its name
KeywordsOf(list) ==
    {i \in 3..Len(list) : isAtom(list[i]) /\ startsWith(list[i].atom, ":")}

\* the text of the child of a keyword with a value, and without one
KeywordWith(hp, key, value) ==
    Join(toTitleCase(key.atom) \o <<":", " ">> \o formatSExpr(hp, value))
KeywordAlone(key) == Join(toTitleCase(key.atom) \o <<":", " ", "(empty)">>)

\* the children of a node that show one of the texts
ChildrenShowing(node, texts) ==
    {k \in 1..Len(node.children) : node.children[k].text \in texts}

\* what the claim says of the children of the node of an action
KeywordRule(hp, list, node) ==
    /\ \A i \in KeywordsOf(list) : \A j \in KeywordsOf(list) :
           ChildrenShowing(node, {KeywordWith(hp, list[i], list[j])}) = {}
    /\ \A i \in KeywordsOf(list) :
           Cardinality(ChildrenShowing(node,
               {KeywordWith(hp, list[i], list[j]) : j \in 3..Len(list)}
               \cup {KeywordAlone(list[i])})) = 1
    /\ \A i \in KeywordsOf(list) :
           IF i = Len(list)
           THEN ChildrenShowing(node, {KeywordAlone(list[i])}) # {}
           ELSE isList(list[i + 1]) =>
                    ChildrenShowing(node, {KeywordWith(hp, list[i], list[i + 1])}) # {}

\* C22: in the node of an action no keyword is shown with a keyword atom as
\* its value, every keyword has exactly one child, which shows the list
\* that follows the keyword, and a keyword with nothing after it is shown
\* as `<Label>: (empty)`.
C22_KeywordWithItsList ==
    (pc = "returned" /\ Len(definitions) = 1 /\ definitions[1].kind = "domain") =>
        \A i \in ActionSegments(heap, definitions[1]) :
            LET list == ListOf(heap, definitions[1].segments[i])
                title == Join(toTitleCase(list[1].atom) \o <<":", " ">> \o list[2].atom)
            IN /\ \E k \in 1..Len(root.children) : root.children[k].text = title
               /\ \A k \in 1..Len(root.children) :
                      root.children[k].text = title
                          => KeywordRule(heap, list, root.children[k])

\* the action (:action move :parameters (?r) :precondition :effect (p) x
\* :duration) was rendered: :precondition is shown with the keyword :effect
\* as its value and the list (p) as a child of its own
C22_KeywordAsValue ==
    /\ pc = "returned"
    /\ \E k \in 1..Len(root.children) :
           /\ root.children[k].text = "Action: move"
           /\ ChildTexts(root.children[k])
                  = <<"Parameters: (?r)", "Precondition: :effect", "(p)", "x",
                      "Duration: (empty)">>

-----------------------------------------------------------------------------
(* What classifyDefinition returns for a form.                              *)

\* the form: the first top-level item, a list
FormOf(hp) == ListOf(hp, ParseResult[1])

\* the segments of a form that are headers: non-empty lists whose head is
\* the atom domain or problem in any case
HeadersOf(hp, segments) ==
    {i \in 1..Len(segments) :
        /\ isList(segments[i])
        /\ ListOf(hp, segments[i]) # <<>>
        /\ isAtom(ListOf(hp, segments[i])[1])
        /\ toLowerCase(ListOf(hp, segments[i])[1].atom) \in {DomainAtom, ProblemAtom}}

\* the first of them
FirstHeader(hp, segments) ==
    CHOOSE i \in HeadersOf(hp, segments) : \A j \in HeadersOf(hp, segments) : i <= j

\* what the claim says the definition of a form with the head define is
ClassifiedAs(hp, segments) ==
    IF HeadersOf(hp, segments) = {}
    THEN Definition("unknown", <<>>, segments, <<>>)
    ELSE LET first == FirstHeader(hp, segments)
             header == ListOf(hp, segments[first])
         IN Definition(IF toLowerCase(header[1].atom) = DomainAtom THEN "domain"
                       ELSE "problem",
                       IF Len(header) >= 2 /\ isAtom(header[2]) THEN <<header[2].atom>>
                       ELSE <<>>,
                       segments, <<first - 1>>)

\* C23: classifyDefinition returns null for an empty list and for a list
\* whose first element is not the atom define in any case; otherwise the
\* first header segment fixes kind, headerIndex and name (the second element
\* of the header when it is an atom, undefined otherwise), later headers
\* change nothing, and without a header the kind is unknown and headerIndex
\* is null.
C23_FirstHeaderDecides ==
    pc \in {"classified", "failed", "returned"} =>
        LET expr == FormOf(heap) IN
        IF expr = <<>> \/ ~isAtom(expr[1]) \/ toLowerCase(expr[1].atom) # DefineAtom
        THEN definitions = <<>> /\ pc = "failed" /\ error = "noDefinitions"
        ELSE definitions = <<ClassifiedAs(heap, Tail(expr))>>

\* the form (define (DOMAIN (x) y) (Problem p1)) was classified: a domain
\* without a name whose header is the first segment
C23_Witness ==
    /\ pc = "classified"
    /\ Len(definitions) = 1
    /\ definitions[1].kind = "domain"
    /\ definitions[1].name = <<>>
    /\ definitions[1].headerIndex = <<0>>
    /\ HeadersOf(heap, definitions[1].segments) = {1, 2}
    /\ Len(ListOf(heap, definitions[1].segments[2])) = 2
    /\ ListOf(heap, definitions[1].segments[2])[2] = AtomItem(<<"p", "1">>)

\* a form whose head is not define was refused
C23_WitnessNull ==
    /\ pc = "failed"
    /\ FormOf(heap) # <<>>
    /\ isAtom(FormOf(heap)[1])
    /\ FormOf(heap)[1].atom = DomainAtom

-----------------------------------------------------------------------------
(* The rectangles of the nodes of a diagram.                                *)

\* the nodes of a list: its geometry elements
NodesOf(elements) == SelectSeq(elements, LAMBDA e : e.type = "geometry")

\* two rectangles that share a point of their interiors
Intersect(a, b) ==
    /\ a.x < b.x + b.width
    /\ b.x < a.x + a.width
    /\ a.y < b.y + b.height
    /\ b.y < a.y + a.height

\* no two nodes of a list intersect
Disjoint(nodes) ==
    \A i \in 1..Len(nodes) : \A j \in 1..Len(nodes) :
        i < j => ~Intersect(nodes[i], nodes[j])

\* C24: the block of the i-th action of a domain (counted from 0) starts at
\* x = START_X + i * (ACTION_GROUP_WIDTH + NODE_SPACING_X), every node of
\* the action lies between this x and this x + ACTION_GROUP_WIDTH, and no
\* two nodes of the list of the domain intersect.
C24_ActionBlocksDisjoint ==
    \A n \in 1..Len(calls) :
        (calls[n].kind = "domain" /\ ~calls[n].threw) =>
            /\ \A k \in 1..Len(domainActions(calls[n].input)) :
                   LET nodes == NodesOf(MembersOf(calls[n].elements,
                                                  GroupsOf(calls[n].elements)[k]))
                       startX == START_X + (k - 1) * (ACTION_GROUP_WIDTH + NODE_SPACING_X)
                   IN /\ nodes[1].x = startX
                      /\ nodes[1].y = START_Y
                      /\ \A i \in 1..Len(nodes) :
                             /\ startX <= nodes[i].x
                             /\ nodes[i].x + nodes[i].width <= startX + ACTION_GROUP_WIDTH
            /\ Disjoint(NodesOf(calls[n].elements))

\* the domain of the action wide, whose bands have two rows each and whose
\* numeric band has more than three nodes, and of the action move was
\* converted; the block of move starts one block width and one gap further
C24_Witness ==
    \E n \in 1..Len(calls) :
        /\ calls[n].kind = "domain"
        /\ calls[n].input = WideDomain
        /\ Len(GroupsOf(calls[n].elements)) = 2
        /\ LET wide == NodesOf(MembersOf(calls[n].elements, GroupsOf(calls[n].elements)[1]))
               move == NodesOf(MembersOf(calls[n].elements, GroupsOf(calls[n].elements)[2]))
           IN /\ Len(SelectSeq(wide, LAMBDA e : e.fill = PRECONDITION_COLOR)) = 4
              /\ Len(SelectSeq(wide, LAMBDA e : e.fill \in {FUNCTION_NODE_COLOR,
                                   OPERATOR_NODE_COLOR, LITERAL_NODE_COLOR})) > 3
              /\ move[1].x = START_X + ACTION_GROUP_WIDTH + NODE_SPACING_X

-----------------------------------------------------------------------------
(* The layout of a problem diagram.                                         *)

\* the description nodes of the sidebar and the nodes of the content area
SidebarNodes(elements) ==
    SelectSeq(NodesOf(elements),
              LAMBDA e : e.role \in {"problem-init-description", "problem-goal-description"})
ContentNodes(elements) ==
    SelectSeq(NodesOf(elements),
              LAMBDA e : e.role \notin {"problem-init-description",
                                        "problem-goal-description"})

\* every node of the first list ends where the nodes of the second start,
\* or further to the left
LeftOf(first, second) ==
    \A i \in 1..Len(first) : \A j \in 1..Len(second) :
        first[i].x + first[i].width <= second[j].x

\* every node of the first list ends where the nodes of the second start,
\* or higher
Above(first, second) ==
    \A i \in 1..Len(first) : \A j \in 1..Len(second) :
        first[i].y + first[i].height <= second[j].y

\* the bands of the predicates and of the objects, and the nodes of the
\* comparators
InitBand(elements) ==
    SelectSeq(ContentNodes(elements), LAMBDA e : e.fill = PRECONDITION_COLOR)
ObjectBand(elements) ==
    SelectSeq(ContentNodes(elements), LAMBDA e : e.shape = "rectangle")
GoalBand(elements) ==
    SelectSeq(ContentNodes(elements), LAMBDA e : e.fill = EFFECT_COLOR)
ComparatorNodes(elements) ==
    SelectSeq(ContentNodes(elements),
              LAMBDA e : e.fill \in {FUNCTION_NODE_COLOR, OPERATOR_NODE_COLOR})

\* the bands follow each other from top to bottom: the comparators of init,
\* the predicates of init, the objects, the predicates of the goal, the
\* comparators of the goal
BandsInOrder(elements) ==
    LET middle == InitBand(elements) \o ObjectBand(elements) \o GoalBand(elements)
        comparators == ComparatorNodes(elements)
    IN /\ Above(InitBand(elements), ObjectBand(elements) \o GoalBand(elements))
       /\ Above(ObjectBand(elements), GoalBand(elements))
       /\ \A i \in 1..Len(comparators) :
              \/ Above(<<comparators[i]>>, middle)
              \/ Above(middle, <<comparators[i]>>)

\* C25: in the list of a problem no two nodes intersect, the sidebar lies
\* left of the content area, and the bands occupy disjoint vertical ranges
\* in their order.
C25_ProblemDisjoint ==
    \A n \in 1..Len(calls) :
        calls[n].kind = "problem" =>
            /\ Disjoint(NodesOf(calls[n].elements))
            /\ LeftOf(SidebarNodes(calls[n].elements), ContentNodes(calls[n].elements))
            /\ BandsInOrder(calls[n].elements)

\* the same without the two description nodes
C25_ContentDisjoint ==
    \A n \in 1..Len(calls) :
        calls[n].kind = "problem" =>
            /\ Disjoint(ContentNodes(calls[n].elements))
            /\ LeftOf(SidebarNodes(calls[n].elements), ContentNodes(calls[n].elements))
            /\ BandsInOrder(calls[n].elements)

\* a problem with one row of init predicates and one row of objects was
\* converted: the two description nodes of its sidebar intersect
C25_SidebarOverlap ==
    \E n \in 1..Len(calls) :
        /\ calls[n].kind = "problem"
        /\ calls[n].input.init = <<AtA, ConnectedAB>>
        /\ calls[n].input.objects = <<oR1, oA, oB>>
        /\ Len(SidebarNodes(calls[n].elements)) = 2
        /\ Intersect(SidebarNodes(calls[n].elements)[1], SidebarNodes(calls[n].elements)[2])

-----------------------------------------------------------------------------
(* Superseded conversions of the asynchronous dialog.                       *)

\* no cancelled conversion is between its setValue and its setError
NoStaleWrite ==
    \A i \in 1..Len(effectRuns) : effectRuns[i].cancelled => effectRuns[i].at # "resumed"

\* a step in which a cancelled conversion resumes after its await and ends
\* leaves the state of the dialog as it is
StaleIsSilent ==
    \A i \in 1..Len(effectRuns) :
        (/\ effectRuns[i].cancelled
         /\ effectRuns[i].at = "awaiting"
         /\ effectRuns' = [effectRuns EXCEPT ![i].at = "done"])
            => dialog' = dialog

\* what the dialog shows when the conversion of a text has completed
ShownFor(text) ==
    IF text = <<>> THEN [value |-> <<>>, error |-> ""]
    ELSE IF parsePddlToMind(text).error # ""
    THEN [value |-> <<>>, error |-> parsePddlToMind(text).error]
    ELSE [value |-> <<parsePddlToMind(text).mind>>, error |-> ""]

\* the conversion of the latest input has completed
LatestCompleted ==
    /\ dialog.open
    /\ dialog.variant = "async"
    /\ effectRuns # <<>>
    /\ effectRuns[Len(effectRuns)].text = dialog.deferredText
    /\ effectRuns[Len(effectRuns)].at = "done"

\* then isParsing is false and value and error are those of that input
LatestWins ==
    LatestCompleted =>
        /\ ~dialog.isParsing
        /\ [value |-> dialog.value, error |-> dialog.error] = ShownFor(dialog.deferredText)

\* C26: in the asynchronous dialog a conversion whose closure was cancelled
\* by the cleanup of the effect never sets value, error or isParsing
\* afterwards, under every interleaving of changes of the input and
\* completions; and once the conversion of the latest input has completed,
\* isParsing is false and value and error are those of the latest input.
C26_StaleDiscarded ==
    /\ [](NoStaleWrite /\ LatestWins)
    /\ [][StaleIsSilent]_vars

\* the conversion of the latest input, which fails, has completed while the
\* conversion of an earlier input that parses, superseded, still waits
C26_Witness ==
    /\ LatestCompleted
    /\ Len(effectRuns) >= 2
    /\ effectRuns[1].cancelled
    /\ effectRuns[1].at = "awaiting"
    /\ effectRuns[1].mind # NoMind
    /\ dialog.error # ""
    /\ dialog.value = <<>>

\* a superseded conversion that waited has ended after a later one
C26_WitnessEnded ==
    /\ LatestCompleted
    /\ Len(effectRuns) = 3
    /\ effectRuns[1].cancelled
    /\ effectRuns[1].at = "done"
    /\ effectRuns[1].mind # NoMind
    /\ effectRuns[2].cancelled
    /\ effectRuns[2].at = "awaiting"
    /\ dialog.value = <<>>

-----------------------------------------------------------------------------
(* Element ids within one compiled list.                                    *)

\* the positions of a list whose element has the id of an earlier element
Repeats(elements) ==
    {q \in 1..Len(elements) : \E p \in 1..(q - 1) : elements[p].id = elements[q].id}

\* C27: within the list returned by one call of convertPddlDomainToGraph or
\* convertPddlProblemToGraph no two elements have the same id, also for a
\* domain with two actions of the same name, for duplicate parameter names,
\* for names that differ only in characters that sanitizeId maps to '_', and
\* for duplicate object names.
C27_IdsDistinct ==
    \A n \in 1..Len(calls) : Repeats(calls[n].elements) = {}

\* the list of a problem that declares an object twice holds two elements
\* with the id of that object
C27_ProblemRepeats ==
    \E n \in 1..Len(calls) :
        /\ calls[n].kind = "problem"
        /\ Repeats(calls[n].elements) # {}

\* the list of a domain with one action holds two elements with one id
C27_ActionRepeats ==
    \E n \in 1..Len(calls) :
        /\ calls[n].kind = "domain"
        /\ Len(calls[n].input.actions) = 1
        /\ Repeats(calls[n].elements) # {}

-----------------------------------------------------------------------------
(* createActionGraph and createProblemGraph called at a start position.     *)

\* the start positions of the calls: the one of the converters, the origin
\* and a position right of and below the one of the converters
StartPositions == {<<START_X, START_Y>>, <<0, 0>>, <<START_X * 3, START_Y * 2>>}

BlockRequest(kind, content, position) ==
    [kind |-> kind, content |-> content, startX |-> position[1], startY |-> position[2]]

BlockRequests ==
    {BlockRequest("action", action, position) :
        action \in Actions \cup {MoveAction, RefuelAction, ResetAction, WideAction},
        position \in StartPositions}
    \cup {BlockRequest("problem", problem, position) :
              problem \in Problems, position \in StartPositions}

\* the record of a call: its arguments and what it returned
Block(request, counter, graph) ==
    [kind |-> request.kind, input |-> request.content, counter |-> counter,
     threw |-> FALSE, startX |-> request.startX, startY |-> request.startY,
     elements |-> graph.elements, width |-> graph.width, height |-> graph.height]

\* createActionGraph(action, startX, startY)
CreateActionGraph ==
    /\ requests # <<>>
    /\ Head(requests).kind = "action"
    /\ calls' = Append(calls, Block(Head(requests), actionGroupCounter,
                                    createActionGraph(Head(requests).content,
                                                      Head(requests).startX,
                                                      Head(requests).startY,
                                                      actionGroupCounter)))
    /\ actionGroupCounter' = actionGroupCounter + 1
    /\ requests' = Tail(requests)
    /\ UNCHANGED problemGroupCounter
    /\ UNCHANGED parseVars
    /\ UNCHANGED <<mindVars, dialogVars, uploadVars>>

\* createProblemGraph(problem, startX, startY)
CreateProblemGraph ==
    /\ requests # <<>>
    /\ Head(requests).kind = "problem"
    /\ calls' = Append(calls, Block(Head(requests), problemGroupCounter,
                                    createProblemGraph(Head(requests).content,
                                                       Head(requests).startX,
                                                       Head(requests).startY,
                                                       problemGroupCounter)))
    /\ problemGroupCounter' = problemGroupCounter + 1
    /\ requests' = Tail(requests)
    /\ UNCHANGED actionGroupCounter
    /\ UNCHANGED parseVars
    /\ UNCHANGED <<mindVars, dialogVars, uploadVars>>

InitBlock ==
    /\ ParseIdle
    /\ MindIdle
    /\ UiIdle
    /\ actionGroupCounter = 0
    /\ problemGroupCounter = 0
    /\ calls = <<>>
    /\ requests \in {<<request>> : request \in BlockRequests}

NextBlock == CreateActionGraph \/ CreateProblemGraph

SpecBlock == InitBlock /\ [][NextBlock]_vars

\* a rectangle lies within the block of a call
WithinBlock(node, call) ==
    /\ call.startX <= node.x
    /\ node.x + node.width <= call.startX + call.width
    /\ call.startY <= node.y
    /\ node.y + node.height <= call.startY + call.height

\* every node of a call lies within its block
Bounded(call) ==
    \A i \in 1..Len(NodesOf(call.elements)) : WithinBlock(NodesOf(call.elements)[i], call)

\* C28: every node rectangle created by createActionGraph or
\* createProblemGraph lies within [startX, startX + width] horizontally and
\* [startY, startY + height] vertically, width and height being the ones
\* returned, for every input and every start position.
C28_BlockBounds ==
    \A n \in 1..Len(calls) : Bounded(calls[n])

\* the statement for the blocks of actions
C28_ActionBounds ==
    \A n \in 1..Len(calls) : calls[n].kind = "action" => Bounded(calls[n])

\* the statement for the start position of the converters
C28_BoundsAtStart ==
    \A n \in 1..Len(calls) :
        (calls[n].startX = START_X /\ calls[n].startY = START_Y) => Bounded(calls[n])

\* the statement for the calls that start at or above the converters' row
C28_BoundsFromAbove ==
    \A n \in 1..Len(calls) : calls[n].startY <= START_Y => Bounded(calls[n])

\* the init description of a problem placed below y = 150 starts above the
\* block of the problem
C28_DescriptionAbove ==
    \E n \in 1..Len(calls) :
        /\ calls[n].kind = "problem"
        /\ calls[n].startY > START_Y
        /\ \E i \in 1..Len(NodesOf(calls[n].elements)) :
               NodesOf(calls[n].elements)[i].y < calls[n].startY

-----------------------------------------------------------------------------
(* The token array of a text that is not empty.                             *)

\* C29: whenever the comment-stripped, trimmed input is not empty, so that
\* the empty-input check has passed, tokenize returns at least one token:
\* parsePddlToMind never fails with "Unable to tokenize".
C29_NeverUnableToTokenize ==
    /\ error # "tokenizeEmpty"
    /\ (cleanedDefinition # <<>> /\ pc # "tokenize") => Len(tokens) >= 1

\* a text of a blank, an atom and a comment has been reduced to the atom,
\* which is its one token
C29_Witness ==
    /\ definition # cleanedDefinition
    /\ cleanedDefinition = <<"a">>
    /\ tokens = << <<"a">> >>
    /\ pc = "built"

-----------------------------------------------------------------------------
(* The stack of parseTokensToSExpr.                                         *)

\* the tokens processed so far were processed without a throw
Processing == pc = "parse" /\ error = ""

\* the depth of the stack is 1 + the '(' seen - the ')' seen, at least 1
DepthCounts ==
    /\ Len(stack) = 1 + CountTok(tokens, OpenParen, pos) - CountTok(tokens, CloseParen, pos)
    /\ Len(stack) >= 1

\* stack[0] is the list made at the start, and each later entry of the
\* stack is the last element of the entry before it
StackIsSpine ==
    /\ stack[1] = InitialStack[1]
    /\ \A k \in 2..Len(stack) :
           /\ heap[stack[k - 1]] # <<>>
           /\ heap[stack[k - 1]][Len(heap[stack[k - 1]])] = ListItem(stack[k])

\* a step that processes an atom appends it to the innermost open list and
\* leaves the stack and the other lists as they are
AtomToInnermost ==
    (/\ Processing
     /\ pos' = pos + 1
     /\ pos < Len(tokens)
     /\ tokens[pos + 1] \notin {OpenParen, CloseParen})
        => /\ stack' = stack
           /\ heap' = [heap EXCEPT ![stack[Len(stack)]] = Append(@, AtomItem(tokens[pos + 1]))]

\* C30: after each token that parseTokensToSExpr has processed without an
\* error the depth of the stack is 1 + (number of '(' seen) - (number of
\* ')' seen) and at least 1, stack[0] is the implicit top-level list, every
\* stack[k] with k >= 1 is the last element of stack[k-1], and an atom is
\* always appended to the innermost open list.
C30_StackInvariant ==
    /\ [](Processing => (DepthCounts /\ StackIsSpine))
    /\ [][AtomToInnermost]_vars

\* after `( ( ) a (` the stack holds the top-level list, the first list,
\* whose elements are the closed list and the atom, and the list just opened
C30_Witness ==
    /\ Processing
    /\ pos = 5
    /\ SubSeq(tokens, 1, 5) = <<OpenParen, OpenParen, CloseParen, <<"a">>, OpenParen>>
    /\ Len(stack) = 3
    /\ Len(heap[stack[2]]) = 3
    /\ heap[stack[2]][2] = AtomItem(<<"a">>)

=============================================================================
